---- MODULE Spec2Model ----
(***************************************************************************)
(* AMS Touch Interface: the navigation and session core.                   *)
(*   src/core/config.py      AppConfig, SessionState (app_state)           *)
(*   src/core/navigation.py  NavigationManager                             *)
(*   src/screens/*.py        the eight screens that drive the core         *)
(*   src/main.py             AMSApp (screen registration, shutdown)        *)
(*                                                                         *)
(* Strings the code lower-cases, searches or measures (user names, PINs,   *)
(* activity codes) are tuples of characters, and None is <<"None">> for    *)
(* them; None is the empty tuple for login_time, session_id and the        *)
(* summary, and the name "None" for screen names and the method.           *)
(***************************************************************************)
EXTENDS Integers, Sequences, FiniteSets, TLC

VARIABLES
    app_state,      \* the SessionState singleton
    nav,            \* the NavigationManager and its ScreenManager
    screens,        \* the fields of the screen objects
    clock_events,   \* callbacks scheduled with Clock.schedule_once
    now,            \* datetime.now(), in ticks
    recorded,       \* number of _record_navigation calls so far
    last            \* the last call: its name, argument, result

vars == <<app_state, nav, screens, clock_events, now, recorded, last>>

None == <<"None">>

NoValue == <<>>

NoName == "None"

(***************************************************************************)
(* AppConfig                                                               *)
(***************************************************************************)
PIN_LENGTH == 5

MAX_PIN_ATTEMPTS == 3

MAX_ACTIVITY_CODE_LENGTH == 8

MIN_ACTIVITY_CODE_LENGTH == 3

SESSION_TIMEOUT_MINUTES == 30

DEFAULT_PIN == <<"1", "2", "3", "4", "5">>

EMERGENCY_PIN == <<"9", "9", "9", "9", "9">>

HISTORY_LIMIT == 50

(***************************************************************************)
(* Bounds of the model                                                     *)
(***************************************************************************)
\* the clock runs from 0 to MaxClock ticks
MaxClock == 2

\* ticks per second: datetime.now() is finer than the %S of strftime
TicksPerSecond == 2

\* at most MaxEvents entries in each audit list
MaxEvents == 2

(***************************************************************************)
(* Strings as tuples of characters                                         *)
(***************************************************************************)
ToLowerChar(c) ==
    CASE c = "A" -> "a" [] c = "B" -> "b" [] c = "C" -> "c" [] c = "D" -> "d"
      [] c = "I" -> "i" [] c = "M" -> "m" [] c = "N" -> "n" [] c = "U" -> "u"
      [] OTHER -> c

\* str.lower()
Lower(s) == [i \in 1..Len(s) |-> ToLowerChar(s[i])]

\* Python's  sub in s
Contains(s, sub) ==
    \E i \in 0..(Len(s) - Len(sub)) :
        \A j \in 1..Len(sub) : s[i + j] = sub[j]

\* bool(s) of a str-or-None value
Truthy(s) == s # None /\ s # <<>>

RoleWords ==
    { <<"s","u","p","e","r","v","i","s","o","r">>,
      <<"a","d","m","i","n">>,
      <<"m","a","n","a","g","e","r">> }

(***************************************************************************)
(* SessionState (src/core/config.py)                                       *)
(***************************************************************************)
Key(name, slot) == [name |-> name, slot |-> slot, status |-> "available"]

AllKeys ==
    << Key("Main Office Entrance", 1), Key("Server Room A-1", 2),
       Key("Lab Section 3B", 3),       Key("Storage Unit #7", 4),
       Key("Conference Room 1", 5),    Key("Data Center Main", 6),
       Key("Research Lab G", 7),       Key("Executive Office", 8) >>

StandardKeys ==
    << Key("Main Office Entrance", 1), Key("Conference Room 1", 5),
       Key("Storage Unit #7", 4) >>

\* SessionState.reset: the state of a freshly constructed SessionState
ResetState ==
    [ current_user          |-> None,
      login_time            |-> NoValue,
      activity_code         |-> None,
      authentication_method |-> NoName,
      session_active        |-> FALSE,
      accessible_keys       |-> <<>>,
      removed_keys          |-> <<>>,
      returned_keys         |-> <<>>,
      failed_attempts       |-> 0,
      theme_changed         |-> FALSE,
      session_id            |-> NoValue ]

\* strftime('%Y%m%d_%H%M%S') keeps whole seconds only
FormatSeconds(t) == t \div TicksPerSecond

\* f"{username}_{login_time.strftime(...)}": the suffix has a fixed width,
\* so the pair (username, seconds) determines the string and conversely
SessionId(username, t) == <<username, FormatSeconds(t)>>

\* load_accessible_keys that looks for the role words in the name as typed
LoadAccessibleKeys_CaseSensitive(st) ==
    IF ~Truthy(st.current_user)
    THEN [st EXCEPT !.accessible_keys = <<>>]
    ELSE IF \E role \in RoleWords : Contains(st.current_user, role)
         THEN [st EXCEPT !.accessible_keys = AllKeys]
         ELSE [st EXCEPT !.accessible_keys = StandardKeys]

\* load_accessible_keys that gives every user the keys of an administrator
LoadAccessibleKeys_AllSlots(st) ==
    IF ~Truthy(st.current_user)
    THEN [st EXCEPT !.accessible_keys = <<>>]
    ELSE [st EXCEPT !.accessible_keys = AllKeys]

\* SessionState.load_accessible_keys
LoadAccessibleKeys(st) ==
    IF ~Truthy(st.current_user)
    THEN [st EXCEPT !.accessible_keys = <<>>]
    ELSE IF \E role \in RoleWords : Contains(Lower(st.current_user), role)
         THEN [st EXCEPT !.accessible_keys = AllKeys]
         ELSE [st EXCEPT !.accessible_keys = StandardKeys]

\* start_session that marks the session active but leaves session_id unset
StartSession_NoId(st, username, auth_method, t) ==
    LoadAccessibleKeys(
        [st EXCEPT !.current_user = username,
                   !.authentication_method = auth_method,
                   !.login_time = <<t>>,
                   !.session_active = TRUE,
                   !.failed_attempts = 0])

\* SessionState.start_session
StartSession(st, username, auth_method, t) ==
    LoadAccessibleKeys(
        [st EXCEPT !.current_user = username,
                   !.authentication_method = auth_method,
                   !.login_time = <<t>>,
                   !.session_active = TRUE,
                   !.session_id = SessionId(username, t),
                   !.failed_attempts = 0])

\* index of the first key the loop of remove_key / return_key acts on, 0 if none
FirstKey(st, slot, status) ==
    LET hits == {i \in 1..Len(st.accessible_keys) :
                    /\ st.accessible_keys[i].slot = slot
                    /\ st.accessible_keys[i].status = status}
    IN  IF hits = {} THEN 0
        ELSE CHOOSE i \in hits : \A j \in hits : i <= j

\* remove_key that looks at the slot alone, not at the status of its key
RemoveKey_AnyStatus(st, slot, t) ==
    LET hits == {i \in 1..Len(st.accessible_keys) : st.accessible_keys[i].slot = slot}
        i    == IF hits = {} THEN 0 ELSE CHOOSE k \in hits : \A j \in hits : k <= j
    IN  IF i = 0 THEN [st |-> st, ret |-> FALSE]
        ELSE [st |-> [st EXCEPT
                        !.accessible_keys[i].status = "removed",
                        !.removed_keys = Append(@,
                            [name |-> st.accessible_keys[i].name,
                             slot |-> slot,
                             time |-> t,
                             session_id |-> st.session_id])],
              ret |-> TRUE]

\* SessionState.remove_key: [st, ret]
RemoveKey(st, slot, t) ==
    LET i == FirstKey(st, slot, "available")
    IN  IF i = 0 THEN [st |-> st, ret |-> FALSE]
        ELSE [st |-> [st EXCEPT
                        !.accessible_keys[i].status = "removed",
                        !.removed_keys = Append(@,
                            [name |-> st.accessible_keys[i].name,
                             slot |-> slot,
                             time |-> t,
                             session_id |-> st.session_id])],
              ret |-> TRUE]

\* return_key that records the return but leaves the key marked removed
ReturnKey_KeepsRemoved(st, slot, t) ==
    LET i == FirstKey(st, slot, "removed")
    IN  IF i = 0 THEN [st |-> st, ret |-> FALSE]
        ELSE [st |-> [st EXCEPT
                        !.returned_keys = Append(@,
                            [name |-> st.accessible_keys[i].name,
                             slot |-> slot,
                             time |-> t,
                             session_id |-> st.session_id])],
              ret |-> TRUE]

\* SessionState.return_key: [st, ret]
ReturnKey(st, slot, t) ==
    LET i == FirstKey(st, slot, "removed")
    IN  IF i = 0 THEN [st |-> st, ret |-> FALSE]
        ELSE [st |-> [st EXCEPT
                        !.accessible_keys[i].status = "available",
                        !.returned_keys = Append(@,
                            [name |-> st.accessible_keys[i].name,
                             slot |-> slot,
                             time |-> t,
                             session_id |-> st.session_id])],
              ret |-> TRUE]

\* the summary dictionary end_session assembles
Summary(st, t) ==
    [ session_id      |-> st.session_id,
      user            |-> st.current_user,
      auth_method     |-> st.authentication_method,
      login_time      |-> st.login_time,
      end_time        |-> t,
      duration        |-> IF st.login_time # NoValue THEN t - st.login_time[1] ELSE 0,
      activity_code   |-> st.activity_code,
      keys_removed    |-> Len(st.removed_keys),
      keys_returned   |-> Len(st.returned_keys),
      removed_keys    |-> st.removed_keys,
      returned_keys   |-> st.returned_keys,
      failed_attempts |-> st.failed_attempts ]

\* end_session that marks the session ended but keeps the audit lists
EndSession_KeepsAudit(st, t) ==
    IF ~st.session_active
    THEN [st |-> st, summary |-> NoValue]
    ELSE [st |-> [ResetState EXCEPT !.removed_keys = st.removed_keys,
                                    !.returned_keys = st.returned_keys],
          summary |-> <<Summary(st, t)>>]

\* SessionState.end_session: [st, summary]; summary is <<>> for None
EndSession(st, t) ==
    IF ~st.session_active
    THEN [st |-> st, summary |-> NoValue]
    ELSE [st |-> ResetState, summary |-> <<Summary(st, t)>>]

\* SessionState.get_session_duration, in ticks
GetSessionDuration(st, t) ==
    IF ~st.session_active \/ st.login_time = NoValue THEN 0
    ELSE t - st.login_time[1]

\* SessionState.is_session_expired
IsSessionExpired(st, t) ==
    IF ~st.session_active THEN TRUE
    ELSE GetSessionDuration(st, t) > SESSION_TIMEOUT_MINUTES * 60 * TicksPerSecond

(***************************************************************************)
(* Screens (src/screens/*.py): the state of the screen objects             *)
(***************************************************************************)
ScreenNames ==
    {"main_idle", "auth_selection", "card_scan", "biometric_scan",
     "pin_entry", "activity_code", "emergency_access", "configuration"}

\* a BaseScreen that is not one of the eight, so has no navigation rule
ExtraScreen == "diagnostics"

AllScreens == ScreenNames \cup {ExtraScreen}

\* the screen objects as their constructors leave them
InitScreens ==
    [ is_active          |-> [s \in AllScreens |-> FALSE],
      navigation_manager |-> {},
      pin_entry          |-> [current_user    |-> <<"U","n","k","n","o","w","n"," ","U","s","e","r">>,
                              pin_value       |-> <<>>,
                              failed_attempts |-> 0],
      activity_code      |-> [activity_code |-> <<>>],
      card_scan          |-> [scanning |-> FALSE],
      biometric_scan     |-> [scanning |-> FALSE],
      emergency_access   |-> [emergency_pin   |-> <<>>,
                              failed_attempts |-> 0] ]

\* PinEntryScreen.reset_pin_entry
ResetPinEntry(scr) ==
    [scr EXCEPT !.pin_entry.pin_value = <<>>,
                !.pin_entry.failed_attempts = 0]

\* on_screen_exit that leaves is_active as it is
OnScreenExit_StaysActive(scr, s) == scr

\* on_screen_exit of the screen object named s (BaseScreen and overrides)
OnScreenExit(scr, s) == [scr EXCEPT !.is_active[s] = FALSE]

\* on_screen_enter of the screen object named s (BaseScreen and overrides)
OnScreenEnter(scr, s) ==
    LET a == [scr EXCEPT !.is_active[s] = TRUE]
    IN  CASE s = "pin_entry"        -> ResetPinEntry(a)
          [] s = "activity_code"    -> [a EXCEPT !.activity_code.activity_code = <<>>]
          [] s = "card_scan"        -> [a EXCEPT !.card_scan.scanning = FALSE]
          [] s = "biometric_scan"   -> [a EXCEPT !.biometric_scan.scanning = FALSE]
          [] s = "emergency_access" -> [a EXCEPT !.emergency_access.emergency_pin = <<>>,
                                                 !.emergency_access.failed_attempts = 0]
          [] OTHER                  -> a

\* cleanup() of the screen object named s (BaseScreen and overrides)
ScreenCleanup(scr, s) ==
    CASE s = "pin_entry"        -> [scr EXCEPT !.pin_entry.pin_value = <<>>]
      [] s = "activity_code"    -> [scr EXCEPT !.activity_code.activity_code = <<>>]
      [] s = "card_scan"        -> [scr EXCEPT !.card_scan.scanning = FALSE]
      [] s = "biometric_scan"   -> [scr EXCEPT !.biometric_scan.scanning = FALSE]
      [] s = "emergency_access" -> [scr EXCEPT !.emergency_access.emergency_pin = <<>>,
                                               !.emergency_access.failed_attempts = 0]
      [] OTHER                  -> scr

(***************************************************************************)
(* NavigationManager (src/core/navigation.py)                              *)
(***************************************************************************)
\* NavigationManager._setup_navigation_rules
navigation_rules ==
    [ main_idle        |-> {"auth_selection", "emergency_access", "configuration"},
      auth_selection   |-> {"main_idle", "card_scan", "biometric_scan"},
      card_scan        |-> {"auth_selection", "pin_entry"},
      biometric_scan   |-> {"auth_selection", "pin_entry"},
      pin_entry        |-> {"card_scan", "biometric_scan", "activity_code"},
      activity_code    |-> {"pin_entry", "main_idle"},
      emergency_access |-> {"main_idle"},
      configuration    |-> {"main_idle"} ]

\* NavigationManager.__init__: no screen, no history; the ScreenManager's
\* current is None and its transition slides left
InitNav ==
    [ screen_registry    |-> {},
      sm_screens         |-> {},
      sm_current         |-> NoName,
      sm_current_screen  |-> NoName,
      direction          |-> "left",
      navigation_history |-> <<>> ]

\* _validate_navigation that denies what no rule covers
ValidateNavigation_FailClosed(from_screen, to_screen) ==
    IF to_screen = "main_idle" THEN TRUE
    ELSE IF from_screen \in DOMAIN navigation_rules
         THEN to_screen \in navigation_rules[from_screen]
         ELSE FALSE

\* _validate_navigation without the main_idle safety rule
ValidateNavigation_NoHome(from_screen, to_screen) ==
    IF from_screen \in DOMAIN navigation_rules
    THEN to_screen \in navigation_rules[from_screen]
    ELSE TRUE

\* _validate_navigation that lets every navigation through
ValidateNavigation_AllowAll(from_screen, to_screen) ==
    TRUE

\* NavigationManager._validate_navigation
ValidateNavigation(from_screen, to_screen) ==
    IF to_screen = "main_idle" THEN TRUE
    ELSE IF from_screen \in DOMAIN navigation_rules
         THEN to_screen \in navigation_rules[from_screen]
         ELSE TRUE

\* a trim that keeps the first HISTORY_LIMIT entries:  h[:50]
LastEntries_KeepsOldest(h) ==
    IF Len(h) > HISTORY_LIMIT
    THEN SubSeq(h, 1, HISTORY_LIMIT)
    ELSE h

\* the last HISTORY_LIMIT entries of h:  h[-50:]
LastEntries(h) ==
    IF Len(h) > HISTORY_LIMIT
    THEN SubSeq(h, Len(h) - HISTORY_LIMIT + 1, Len(h))
    ELSE h

\* the dictionary _record_navigation builds
NavigationEvent(st, from_screen, to_screen) ==
    [ from       |-> from_screen,
      to         |-> to_screen,
      timestamp  |-> st.current_user,
      session_id |-> st.session_id ]

\* _record_navigation that reads the screen left after the switch was made
RecordNavigation_AfterSwitch(n, st, from_screen, to_screen) ==
    [n EXCEPT !.navigation_history =
        LastEntries(Append(@, NavigationEvent(st, to_screen, to_screen)))]

\* NavigationManager._record_navigation
RecordNavigation(n, st, from_screen, to_screen) ==
    [n EXCEPT !.navigation_history =
        LastEntries(Append(@, NavigationEvent(st, from_screen, to_screen)))]

\* ScreenManager.add_widget (kivy): the first screen added becomes current
SmAddWidget(n, name) ==
    IF n.sm_current = NoName
    THEN [n EXCEPT !.sm_screens = @ \cup {name},
                   !.sm_current = name,
                   !.sm_current_screen = name]
    ELSE [n EXCEPT !.sm_screens = @ \cup {name}]

\* ScreenManager.current = name (kivy): the property is stored, then
\* on_current looks the screen up and raises when there is none
\* [nav, raised]
SmSetCurrent(n, name) ==
    IF name = n.sm_current THEN [nav |-> n, raised |-> FALSE]
    ELSE IF name = NoName
         THEN [nav |-> [n EXCEPT !.sm_current = NoName, !.sm_current_screen = NoName],
               raised |-> FALSE]
    ELSE IF name \notin n.sm_screens
         THEN [nav |-> [n EXCEPT !.sm_current = name], raised |-> TRUE]
    ELSE [nav |-> [n EXCEPT !.sm_current = name, !.sm_current_screen = name],
          raised |-> FALSE]

\* add_screen that does not look at the name of the screen
AddScreen_TakesUnnamed(n, scr, name) ==
    [nav     |-> [SmAddWidget(n, name) EXCEPT !.screen_registry = @ \cup {name}],
     screens |-> [scr EXCEPT !.navigation_manager = @ \cup {name}]]

\* NavigationManager.add_screen: [nav, screens]
AddScreen(n, scr, name) ==
    IF name # ""
    THEN [nav     |-> [SmAddWidget(n, name) EXCEPT !.screen_registry = @ \cup {name}],
          screens |-> [scr EXCEPT !.navigation_manager = @ \cup {name}]]
    ELSE [nav |-> n, screens |-> scr]

\* the result of a set_current call; from is the screen name it started
\* from, raised names what raised, if anything
NavResult(n, scr, from_screen, ret, outcome, hooks, raised) ==
    [nav |-> n, screens |-> scr, from |-> from_screen, ret |-> ret,
     outcome |-> outcome, hooks |-> hooks, raised |-> raised]

\* set_current that records the navigation before it validates it
BlockNavigation_Recorded(n, scr, st, from_screen, to_screen) ==
    NavResult([n EXCEPT !.navigation_history =
                  Append(@, [from |-> from_screen, to |-> to_screen,
                             timestamp |-> st.current_user,
                             session_id |-> st.session_id])],
              scr, from_screen, FALSE, "blocked", <<>>, "none")

\* set_current when validation fails: "Navigation blocked", return False
BlockNavigation(n, scr, st, from_screen, to_screen) ==
    NavResult(n, scr, from_screen, FALSE, "blocked", <<>>, "none")

\* a transition to the right that also takes the last entry off the history
SetDirection_RightPops(n, direction) ==
    IF direction = "right" /\ n.navigation_history # <<>>
    THEN [n EXCEPT !.direction = direction,
                   !.navigation_history = SubSeq(@, 1, Len(@) - 1)]
    ELSE IF direction # "" THEN [n EXCEPT !.direction = direction] ELSE n

\* set_current: a direction that is not empty is handed to the transition
SetDirection(n, direction) ==
    IF direction # "" THEN [n EXCEPT !.direction = direction] ELSE n

\* set_current that puts the old screen back when the entry hook raises
SetCurrent_RollsBack(n, scr, st, screen_name, direction, fault) ==
    LET current_screen == n.sm_current
    IN
    IF ~ValidateNavigation(current_screen, screen_name)
    THEN BlockNavigation(n, scr, st, current_screen, screen_name)
    ELSE
    LET n1  == SetDirection(n, direction)
        n2  == RecordNavigation(n1, st, current_screen, screen_name)
        old == n2.sm_current_screen
    IN
    IF old # NoName /\ fault = "exit"
    THEN NavResult(n2, scr, current_screen, FALSE, "error", << <<"exit", old>> >>, "exit")
    ELSE
    LET scr1 == IF old # NoName THEN OnScreenExit(scr, old) ELSE scr
        h1   == IF old # NoName THEN << <<"exit", old>> >> ELSE <<>>
        k    == SmSetCurrent(n2, screen_name)
    IN
    IF k.raised
    THEN NavResult(k.nav, scr1, current_screen, FALSE, "error", h1, "screen_manager")
    ELSE
    IF screen_name \notin k.nav.screen_registry
    THEN NavResult(k.nav, scr1, current_screen, TRUE, "ok", h1, "none")
    ELSE
    IF fault = "enter"
    THEN NavResult(n2, scr1, current_screen, FALSE, "error",
                   Append(h1, <<"enter", screen_name>>), "enter")
    ELSE NavResult(k.nav, OnScreenEnter(scr1, screen_name), current_screen, TRUE, "ok",
                   Append(h1, <<"enter", screen_name>>), "none")

\* NavigationManager.set_current.  fault names the hook that raises in this
\* call ("none", "exit", "enter"); a hook that raises changes nothing.
\* outcome: "blocked" (validation), "error" (exception caught), "ok";
\* hooks: the hooks the call invoked, in order; raised: "exit" or "enter"
\* (the hook), "screen_manager" (no such screen), "none"
SetCurrent(n, scr, st, screen_name, direction, fault) ==
    LET current_screen == n.sm_current
    IN
    IF ~ValidateNavigation(current_screen, screen_name)
    THEN BlockNavigation(n, scr, st, current_screen, screen_name)
    ELSE
    LET n1  == SetDirection(n, direction)
        n2  == RecordNavigation(n1, st, current_screen, screen_name)
        old == n2.sm_current_screen
    IN
    IF old # NoName /\ fault = "exit"
    THEN NavResult(n2, scr, current_screen, FALSE, "error", << <<"exit", old>> >>, "exit")
    ELSE
    LET scr1 == IF old # NoName THEN OnScreenExit(scr, old) ELSE scr
        h1   == IF old # NoName THEN << <<"exit", old>> >> ELSE <<>>
        k    == SmSetCurrent(n2, screen_name)
    IN
    IF k.raised
    THEN NavResult(k.nav, scr1, current_screen, FALSE, "error", h1, "screen_manager")
    ELSE
    IF screen_name \notin k.nav.screen_registry
    THEN NavResult(k.nav, scr1, current_screen, TRUE, "ok", h1, "none")
    ELSE
    IF fault = "enter"
    THEN NavResult(k.nav, scr1, current_screen, FALSE, "error",
                   Append(h1, <<"enter", screen_name>>), "enter")
    ELSE NavResult(k.nav, OnScreenEnter(scr1, screen_name), current_screen, TRUE, "ok",
                   Append(h1, <<"enter", screen_name>>), "none")

\* go_back that asks for the screen the last navigation came from
GoBackTarget_LastEntry(n) ==
    IF Len(n.navigation_history) >= 2
    THEN n.navigation_history[Len(n.navigation_history)].from
    ELSE "main_idle"

\* the screen go_back asks for
GoBackTarget(n) ==
    IF Len(n.navigation_history) >= 2
    THEN n.navigation_history[Len(n.navigation_history) - 1].from
    ELSE "main_idle"

\* NavigationManager.go_back
GoBack(n, scr, st, fault) == SetCurrent(n, scr, st, GoBackTarget(n), "right", fault)

\* validate_screen_integrity that does not look at the navigation rules
ValidateScreenIntegrity_NoRules(n) ==
    /\ n.sm_screens = n.screen_registry
    /\ n.sm_current \in n.screen_registry

\* NavigationManager.validate_screen_integrity: TRUE when no issue is found
ValidateScreenIntegrity(n) ==
    LET mismatch == n.sm_screens # n.screen_registry
        dangling == n.sm_current \notin n.screen_registry
        missing  == {dest \in UNION {navigation_rules[screen] : screen \in DOMAIN navigation_rules} :
                        dest \notin n.screen_registry}
    IN  ~(mismatch \/ dangling \/ missing # {})

\* complete_activity_session that navigates home and leaves the session alone
CompleteActivitySession_KeepsSession(n, scr, st, t, fault) ==
    [st |-> st, summary |-> NoValue,
     r  |-> SetCurrent(n, scr, st, "main_idle", "right", fault)]

\* NavigationManager.complete_activity_session: [st, r, summary], r the
\* result of its set_current
CompleteActivitySession(n, scr, st, t, fault) ==
    LET e == EndSession(st, t)
    IN  [st |-> e.st, summary |-> e.summary,
         r  |-> SetCurrent(n, scr, e.st, "main_idle", "right", fault)]

\* NavigationManager.cleanup: [nav, screens]
RECURSIVE CleanupScreens(_, _)
CleanupScreens(scr, names) ==
    IF names = {} THEN scr
    ELSE LET s == CHOOSE x \in names : TRUE
         IN  CleanupScreens(ScreenCleanup(scr, s), names \ {s})

Cleanup(n, scr) ==
    [nav     |-> [n EXCEPT !.navigation_history = <<>>, !.screen_registry = {}],
     screens |-> CleanupScreens(scr, n.screen_registry)]

(***************************************************************************)
(* Inputs                                                                  *)
(***************************************************************************)
Alice == <<"a","l","i","c","e">>

BobAdmin == <<"b","o","b","_","a","d","m","i","n">>

CardUser == <<"C","a","r","d"," ","U","s","e","r">>

BiometricUser == <<"B","i","o","m","e","t","r","i","c"," ","U","s","e","r">>

Users == {Alice, BobAdmin, <<>>}

Methods == {"card", "biometric"}

\* slot 1 is in both inventories, slot 2 in the full one only, slot 9 in none
SlotInputs == {1, 2, 9}

Directions == {"right", ""}

Faults == {"none", "exit", "enter"}

\* screens handed to add_screen one at a time; "" is a screen without a name
AddScreenInputs == {"main_idle", "pin_entry", ExtraScreen, ""}

Targets == AllScreens

(***************************************************************************)
(* kivy.clock.Clock: the callbacks handed to Clock.schedule_once           *)
(***************************************************************************)
Callbacks ==
    { <<"card_scan", "complete_scan">>, <<"card_scan", "proceed_to_pin">>,
      <<"biometric_scan", "complete_scan">>, <<"biometric_scan", "proceed_to_pin">>,
      <<"emergency_access", "return_to_main">> }

\* no callback is pending
NoEvents == [c \in Callbacks |-> 0]

\* Clock.schedule_once(c, delay): one more pending call of c
ScheduleOnce(events, c) == [events EXCEPT ![c] = @ + 1]

\* the clock has called c
Fired(events, c) == [events EXCEPT ![c] = @ - 1]

(***************************************************************************)
(* State after construction                                                *)
(***************************************************************************)
\* op: the operation called; from: the active screen name when it was called;
\* target: the screen it asked for; ret: what it returned;
\* outcome, hooks, raised: as set_current reports them; for a handler of
\* the emergency screen outcome is the action it logged;
\* summary: the summary end_session returned
NoCall ==
    [op |-> "init", from |-> NoName, target |-> NoName, ret |-> "None",
     outcome |-> "none", hooks |-> <<>>, raised |-> "none", summary |-> NoValue]

Call(op, from, target, ret, outcome, hooks, raised, summary) ==
    [op |-> op, from |-> from, target |-> target, ret |-> ret,
     outcome |-> outcome, hooks |-> hooks, raised |-> raised, summary |-> summary]

Ret(b) == IF b THEN "True" ELSE "False"

Init ==
    /\ app_state = ResetState
    /\ nav = InitNav
    /\ screens = InitScreens
    /\ clock_events = NoEvents
    /\ now = 0
    /\ recorded = 0
    /\ last = NoCall

(***************************************************************************)
(* SessionState operations                                                 *)
(***************************************************************************)
Tick ==
    /\ now < MaxClock
    /\ now' = now + 1
    /\ UNCHANGED <<app_state, nav, screens, clock_events, recorded, last>>

start_session(username, auth_method) ==
    /\ app_state' = StartSession(app_state, username, auth_method, now)
    /\ last' = Call("start_session", nav.sm_current, NoName, "None", "none", <<>>, "none", NoValue)
    /\ UNCHANGED <<nav, screens, clock_events, now, recorded>>

remove_key(slot) ==
    /\ Len(app_state.removed_keys) < MaxEvents
    /\ LET r == RemoveKey(app_state, slot, now)
       IN  /\ app_state' = r.st
           /\ last' = Call("remove_key", nav.sm_current, NoName, Ret(r.ret), "none", <<>>, "none", NoValue)
    /\ UNCHANGED <<nav, screens, clock_events, now, recorded>>

return_key(slot) ==
    /\ Len(app_state.returned_keys) < MaxEvents
    /\ LET r == ReturnKey(app_state, slot, now)
       IN  /\ app_state' = r.st
           /\ last' = Call("return_key", nav.sm_current, NoName, Ret(r.ret), "none", <<>>, "none", NoValue)
    /\ UNCHANGED <<nav, screens, clock_events, now, recorded>>

end_session ==
    /\ LET r == EndSession(app_state, now)
       IN  /\ app_state' = r.st
           /\ last' = Call("end_session", nav.sm_current, NoName,
                           IF r.summary = NoValue THEN "None" ELSE "summary",
                           "none", <<>>, "none", r.summary)
    /\ UNCHANGED <<nav, screens, clock_events, now, recorded>>

SessionNext ==
    \/ Tick
    \/ \E u \in Users, m \in Methods : start_session(u, m)
    \/ \E slot \in SlotInputs : remove_key(slot)
    \/ \E slot \in SlotInputs : return_key(slot)
    \/ end_session

\* SessionState driven through its own operations
SpecSession == Init /\ [][SessionNext]_vars

UpperAdmin == <<"A","D","M","I","N">>

\* the user names start_session is given in SpecRoles: with each role word,
\* in lower and upper case, inside a longer name, with a role word cut short,
\* without any, empty and None
RoleUsers ==
    { Alice, BobAdmin, UpperAdmin, None, <<>>,
      <<"s","u","p","e","r","v","i","s","o","r">>,
      <<"M","a","n","a","g","e","r","1">>,
      <<"a","d","m","i">>,
      <<"m","a","n","a","g","e">>,
      <<"a","d","_","m","i","n">>,
      <<"x","A","d","M","i","N","x">> }

\* SessionState with sessions started for the names of RoleUsers
RolesNext ==
    \/ \E u \in RoleUsers, m \in Methods : start_session(u, m)
    \/ \E slot \in SlotInputs : remove_key(slot)
    \/ end_session

SpecRoles == Init /\ [][RolesNext]_vars

(***************************************************************************)
(* NavigationManager operations                                            *)
(***************************************************************************)
\* the effect of a call that ends in set_current, r its result
Navigated(op, target, r) ==
    /\ nav' = r.nav
    /\ screens' = r.screens
    /\ recorded' = IF r.outcome \in {"blocked", "none"} THEN recorded ELSE recorded + 1
    /\ last' = Call(op, r.from, target, Ret(r.ret), r.outcome, r.hooks, r.raised, NoValue)

add_screen(name) ==
    /\ LET r == AddScreen(nav, screens, name)
       IN  /\ nav' = r.nav
           /\ screens' = r.screens
    /\ last' = Call("add_screen", nav.sm_current, name, "None", "none", <<>>, "none", NoValue)
    /\ UNCHANGED <<app_state, clock_events, now, recorded>>

set_current(screen_name, direction, fault) ==
    /\ Navigated("set_current", screen_name,
                 SetCurrent(nav, screens, app_state, screen_name, direction, fault))
    /\ UNCHANGED <<app_state, clock_events, now>>

go_back(fault) ==
    /\ Navigated("go_back", GoBackTarget(nav), GoBack(nav, screens, app_state, fault))
    /\ UNCHANGED <<app_state, clock_events, now>>

go_home(fault) ==
    /\ Navigated("go_home", "main_idle",
                 SetCurrent(nav, screens, app_state, "main_idle", "right", fault))
    /\ UNCHANGED <<app_state, clock_events, now>>

start_authentication_flow(fault) ==
    /\ Navigated("start_authentication_flow", "auth_selection",
                 SetCurrent(nav, screens, app_state, "auth_selection", "left", fault))
    /\ UNCHANGED <<app_state, clock_events, now>>

\* handle_authentication_success that starts the session only when the
\* navigation to activity_code succeeded
handle_authentication_success_WhenAccepted(user_name, auth_method, fault) ==
    /\ LET r == SetCurrent(nav, screens, app_state, "activity_code", "left", fault)
       IN  /\ app_state' = IF r.ret
                           THEN StartSession(app_state, user_name, auth_method, now)
                           ELSE app_state
           /\ Navigated("handle_authentication_success", "activity_code", r)
    /\ UNCHANGED <<clock_events, now>>

handle_authentication_success(user_name, auth_method, fault) ==
    /\ LET st == StartSession(app_state, user_name, auth_method, now)
       IN  /\ app_state' = st
           /\ Navigated("handle_authentication_success", "activity_code",
                        SetCurrent(nav, screens, st, "activity_code", "left", fault))
    /\ UNCHANGED <<clock_events, now>>

handle_authentication_failure(fault) ==
    /\ LET n == app_state.failed_attempts + 1
       IN  IF n >= MAX_PIN_ATTEMPTS
           THEN LET st == [app_state EXCEPT !.failed_attempts = 0]
                IN  /\ app_state' = st
                    /\ Navigated("handle_authentication_failure", "auth_selection",
                                 SetCurrent(nav, screens, st, "auth_selection", "right", fault))
           ELSE /\ app_state' = [app_state EXCEPT !.failed_attempts = n]
                /\ last' = Call("handle_authentication_failure", nav.sm_current, NoName, "False",
                                "none", <<>>, "none", NoValue)
                /\ UNCHANGED <<nav, screens, recorded>>
    /\ UNCHANGED <<clock_events, now>>

complete_activity_session(fault) ==
    /\ LET c == CompleteActivitySession(nav, screens, app_state, now, fault)
       IN  /\ app_state' = c.st
           /\ nav' = c.r.nav
           /\ screens' = c.r.screens
           /\ recorded' = IF c.r.outcome = "blocked" THEN recorded ELSE recorded + 1
           /\ last' = Call("complete_activity_session", c.r.from, "main_idle", Ret(c.r.ret),
                           c.r.outcome, c.r.hooks, c.r.raised, c.summary)
    /\ UNCHANGED <<clock_events, now>>

handle_emergency_access(fault) ==
    /\ Navigated("handle_emergency_access", "emergency_access",
                 SetCurrent(nav, screens, app_state, "emergency_access", "left", fault))
    /\ UNCHANGED <<app_state, clock_events, now>>

handle_configuration_access(fault) ==
    /\ Navigated("handle_configuration_access", "configuration",
                 SetCurrent(nav, screens, app_state, "configuration", "left", fault))
    /\ UNCHANGED <<app_state, clock_events, now>>

cleanup ==
    /\ LET r == Cleanup(nav, screens)
       IN  /\ nav' = r.nav
           /\ screens' = r.screens
    /\ last' = Call("cleanup", nav.sm_current, NoName, "None", "none", <<>>, "none", NoValue)
    /\ UNCHANGED <<app_state, clock_events, now, recorded>>

(***************************************************************************)
(* AMSApp (src/main.py)                                                    *)
(***************************************************************************)
\* the order of screen_classes in AMSApp._register_screens
ScreenClasses ==
    << "main_idle", "auth_selection", "card_scan", "biometric_scan",
       "pin_entry", "activity_code", "emergency_access", "configuration" >>

RECURSIVE AddScreens(_, _, _)
AddScreens(n, scr, names) ==
    IF names = <<>> THEN [nav |-> n, screens |-> scr]
    ELSE LET r == AddScreen(n, scr, Head(names))
         IN  AddScreens(r.nav, r.screens, Tail(names))

\* AMSApp._register_screens: add the eight screens, then set_current('main_idle')
RegisterScreens(n, scr, st) ==
    LET r == AddScreens(n, scr, ScreenClasses)
    IN  SetCurrent(r.nav, r.screens, st, "main_idle", "left", "none")

\* AMSApp.build on a new NavigationManager
register_screens ==
    /\ nav = InitNav
    /\ Navigated("register_screens", "main_idle", RegisterScreens(nav, screens, app_state))
    /\ UNCHANGED <<app_state, clock_events, now>>

(***************************************************************************)
(* The navigation manager driven through its navigation operations         *)
(***************************************************************************)
\* at most MaxNav navigations are recorded
MaxNav == 2

NavBound == recorded < MaxNav

NavNext ==
    \/ register_screens
    \/ \E name \in AddScreenInputs : add_screen(name)
    \/ NavBound /\ \E t \in Targets, d \in Directions, f \in Faults : set_current(t, d, f)
    \/ NavBound /\ \E f \in Faults : go_back(f)
    \/ NavBound /\ \E f \in Faults : go_home(f)
    \/ NavBound /\ \E f \in Faults : start_authentication_flow(f)
    \/ NavBound /\ \E f \in Faults : handle_emergency_access(f)
    \/ NavBound /\ \E f \in Faults : handle_configuration_access(f)

Spec == Init /\ [][NavNext]_vars

(***************************************************************************)
(* The session-lifecycle operations of the navigation manager              *)
(***************************************************************************)
FlowUsers == {Alice, BobAdmin}

FlowNext ==
    \/ register_screens
    \/ Tick
    \/ NavBound /\ \E t \in Targets, f \in Faults : set_current(t, "left", f)
    \/ NavBound /\ \E u \in FlowUsers, m \in Methods, f \in Faults :
                       handle_authentication_success(u, m, f)
    \/ NavBound /\ \E f \in Faults : handle_authentication_failure(f)
    \/ NavBound /\ \E f \in Faults : complete_activity_session(f)

SpecFlow == Init /\ [][FlowNext]_vars

(***************************************************************************)
(* A journey through the screens: navigations that no hook disturbs, and   *)
(* the session-lifecycle operations with every hook fault                  *)
(***************************************************************************)
\* at most MaxJourney navigations are recorded in a journey
MaxJourney == 6

\* the screens are registered and the journey may go on
JourneyBound == nav # InitNav /\ recorded < MaxJourney

JourneyNext ==
    \/ register_screens
    \/ JourneyBound /\ \E t \in Targets : set_current(t, "left", "none")
    \/ JourneyBound /\ handle_authentication_success(Alice, "card", "none")
    \/ JourneyBound /\ handle_authentication_failure("none")
    \/ JourneyBound /\ \E f \in Faults : complete_activity_session(f)

SpecJourney == Init /\ [][JourneyNext]_vars

(***************************************************************************)
(* A long run of navigations: the history fills up and is trimmed          *)
(***************************************************************************)
\* navigations recorded beyond HISTORY_LIMIT
MaxOverflow == 2

\* at most MaxDetours entries of the history lead away from main_idle
MaxDetours == 1

Detours(h) == Cardinality({i \in 1..Len(h) : h[i].to # "main_idle"})

HistoryNext ==
    \/ register_screens
    \/ /\ recorded < HISTORY_LIMIT + MaxOverflow
       /\ go_home("none")
    \/ /\ recorded < HISTORY_LIMIT + MaxOverflow
       /\ Detours(nav.navigation_history) < MaxDetours
       /\ \E t \in Targets : set_current(t, "left", "none")

SpecHistory == Init /\ [][HistoryNext]_vars

(***************************************************************************)
(* go_back over a history that fills up                                    *)
(***************************************************************************)
\* forward navigations are made while fewer than MaxSetup are recorded
MaxSetup == 3

BackNext ==
    \/ register_screens
    \/ /\ nav # InitNav
       /\ recorded < MaxSetup
       /\ \E t \in Targets : set_current(t, "left", "none")
    \/ /\ recorded < HISTORY_LIMIT + MaxOverflow
       /\ go_back("none")

SpecBack == Init /\ [][BackNext]_vars

(***************************************************************************)
(* The navigation manager through its whole life, shutdown included        *)
(***************************************************************************)
LifecycleNext ==
    \/ register_screens
    \/ \E name \in AddScreenInputs : add_screen(name)
    \/ NavBound /\ \E t \in Targets : set_current(t, "left", "none")
    \/ NavBound /\ go_back("none")
    \/ NavBound /\ go_home("none")
    \/ NavBound /\ start_authentication_flow("none")
    \/ NavBound /\ handle_emergency_access("none")
    \/ NavBound /\ handle_configuration_access("none")
    \/ cleanup

SpecLifecycle == Init /\ [][LifecycleNext]_vars

\* validate_screen_integrity called on the navigation manager
validate_screen_integrity ==
    /\ last' = Call("validate_screen_integrity", nav.sm_current, NoName,
                    Ret(ValidateScreenIntegrity(nav)), "none", <<>>, "none", NoValue)
    /\ UNCHANGED <<app_state, nav, screens, clock_events, now, recorded>>

\* the life of the navigation manager with its integrity checked at any time
IntegrityNext ==
    \/ register_screens
    \/ \E name \in AddScreenInputs : add_screen(name)
    \/ NavBound /\ \E t \in Targets : set_current(t, "left", "none")
    \/ NavBound /\ go_back("none")
    \/ cleanup
    \/ validate_screen_integrity

SpecIntegrity == Init /\ [][IntegrityNext]_vars

\* screens registered at any time while at most MaxRegister navigations are
\* recorded: a third navigation can be the go_back that leaves no screen
\* displayed
MaxRegister == 3

RegisterNext ==
    \/ \E name \in AddScreenInputs : add_screen(name)
    \/ /\ recorded < MaxRegister
       /\ \E t \in Targets : set_current(t, "left", "none")
    \/ /\ recorded < MaxRegister
       /\ go_back("none")
    \/ cleanup

SpecRegister == Init /\ [][RegisterNext]_vars

(***************************************************************************)
(* The application: the handlers of the screens (src/screens/*.py) and of  *)
(* AMSApp, called by the touch events and the clock of kivy.  A button or  *)
(* keypad handler runs only while its screen is displayed; a scheduled     *)
(* callback runs some time after it was scheduled, whatever is displayed.  *)
(***************************************************************************)
\* at most MaxAppNav navigations are recorded in a run of the application
MaxAppNav == 6

\* at most MaxPending pending calls of one callback: two, so that a second
\* call can be scheduled while the first is still pending
MaxPending == 2

Digits == {"0", "1", "2", "3", "4", "5", "6", "7", "8", "9"}

\* the keys of ResponsiveKeypad
Keys == Digits \cup {"Clear", "Enter"}

IsPrefix(p, s) == Len(p) <= Len(s) /\ \A i \in 1..Len(p) : p[i] = s[i]

\* the PINs typed at the keypads: the user PIN and the emergency PIN, each
\* the wrong PIN of the other screen
PinInputs == {DEFAULT_PIN, EMERGENCY_PIN}

\* the activity codes typed; their prefixes are the codes that are too short
ActivityCodeInputs ==
    { <<"1", "2", "3">>, <<"4", "4", "4", "4", "4", "4", "4", "4">> }

\* the keys pressed while value is displayed: Clear, Enter, the next digit
\* of one of the attempts, and one digit more after a whole attempt
KeyInputs(value, attempts) ==
    {"Clear", "Enter"}
    \cup {d \in Digits : \E a \in attempts : IsPrefix(Append(value, d), a)}
    \cup (IF value \in attempts THEN {"0"} ELSE {})

BiometricWord == <<"b","i","o","m","e","t","r","i","c">>

\* the application runs: AMSApp.on_stop has not been called
Running == last.op # "on_stop"

\* the screen object named s is the one on display and takes the touches
Displayed(s) == Running /\ nav.sm_current_screen = s

\* a handler that does not navigate
NoNavigation(n, scr) == NavResult(n, scr, n.sm_current, FALSE, "none", <<>>, "none")

\* BaseScreen.navigate_to of the screen object named s
NavigateTo(s, n, scr, st, screen_name, direction) ==
    IF s \in scr.navigation_manager
    THEN SetCurrent(n, scr, st, screen_name, direction, "none")
    ELSE NoNavigation(n, scr)

\* BaseScreen.navigate_home of the screen object named s
NavigateHome(s, n, scr, st) == NavigateTo(s, n, scr, st, "main_idle", "right")

\* the effect of a handler: st the session state and r the navigation
\* result it leaves; a handler returns None
Handled(op, target, st, r, summary) ==
    /\ app_state' = st
    /\ nav' = r.nav
    /\ screens' = r.screens
    /\ recorded' = IF r.outcome \in {"blocked", "none"} THEN recorded ELSE recorded + 1
    /\ last' = Call(op, r.from, target, "None", r.outcome, r.hooks, r.raised, summary)

\* MainIdleScreen.on_start_pressed
MainIdleScreen_on_start_pressed ==
    /\ Displayed("main_idle")
    /\ Handled("MainIdleScreen.on_start_pressed", "auth_selection", app_state,
               IF "main_idle" \in screens.navigation_manager
               THEN SetCurrent(nav, screens, app_state, "auth_selection", "left", "none")
               ELSE NavigateTo("main_idle", nav, screens, app_state, "auth_selection", "left"),
               NoValue)
    /\ UNCHANGED <<clock_events, now>>

\* MainIdleScreen.open_configuration
MainIdleScreen_open_configuration ==
    /\ Displayed("main_idle")
    /\ Handled("MainIdleScreen.open_configuration", "configuration", app_state,
               IF "main_idle" \in screens.navigation_manager
               THEN SetCurrent(nav, screens, app_state, "configuration", "left", "none")
               ELSE NavigateTo("main_idle", nav, screens, app_state, "configuration", "left"),
               NoValue)
    /\ UNCHANGED <<clock_events, now>>

\* MainIdleScreen.handle_emergency_access
MainIdleScreen_handle_emergency_access ==
    /\ Displayed("main_idle")
    /\ Handled("MainIdleScreen.handle_emergency_access", "emergency_access", app_state,
               IF "main_idle" \in screens.navigation_manager
               THEN SetCurrent(nav, screens, app_state, "emergency_access", "left", "none")
               ELSE NavigateTo("main_idle", nav, screens, app_state, "emergency_access", "left"),
               NoValue)
    /\ UNCHANGED <<clock_events, now>>

\* AuthSelectionScreen.handle_back_pressed
AuthSelectionScreen_handle_back_pressed ==
    /\ Displayed("auth_selection")
    /\ Handled("AuthSelectionScreen.handle_back_pressed", "main_idle", app_state,
               NavigateHome("auth_selection", nav, screens, app_state), NoValue)
    /\ UNCHANGED <<clock_events, now>>

\* AuthSelectionScreen.select_card_auth
AuthSelectionScreen_select_card_auth ==
    /\ Displayed("auth_selection")
    /\ Handled("AuthSelectionScreen.select_card_auth", "card_scan", app_state,
               NavigateTo("auth_selection", nav, screens, app_state, "card_scan", "left"),
               NoValue)
    /\ UNCHANGED <<clock_events, now>>

\* AuthSelectionScreen.select_biometric_auth
AuthSelectionScreen_select_biometric_auth ==
    /\ Displayed("auth_selection")
    /\ Handled("AuthSelectionScreen.select_biometric_auth", "biometric_scan", app_state,
               NavigateTo("auth_selection", nav, screens, app_state, "biometric_scan", "left"),
               NoValue)
    /\ UNCHANGED <<clock_events, now>>

\* ConfigurationScreen.handle_back_pressed
ConfigurationScreen_handle_back_pressed ==
    /\ Displayed("configuration")
    /\ Handled("ConfigurationScreen.handle_back_pressed", "main_idle", app_state,
               NavigateHome("configuration", nav, screens, app_state), NoValue)
    /\ UNCHANGED <<clock_events, now>>

ScanScreens == {"card_scan", "biometric_scan"}

\* the user name proceed_to_pin hands to the PIN screen
ScanUser(s) == IF s = "card_scan" THEN CardUser ELSE BiometricUser

\* CardScanScreen.handle_back_pressed, BiometricScanScreen.handle_back_pressed
ScanScreen_handle_back_pressed(s) ==
    /\ Displayed(s)
    /\ Handled("ScanScreen.handle_back_pressed", "auth_selection", app_state,
               NavigateTo(s, nav, screens, app_state, "auth_selection", "right"),
               NoValue)
    /\ UNCHANGED <<clock_events, now>>

\* simulate_card_scan / simulate_biometric_scan, with start_scanning
ScanScreen_simulate_scan(s) ==
    /\ Displayed(s)
    /\ IF ~screens[s].scanning
       THEN /\ clock_events[<<s, "complete_scan">>] < MaxPending
            /\ screens' = [screens EXCEPT ![s].scanning = TRUE]
            /\ clock_events' = ScheduleOnce(clock_events, <<s, "complete_scan">>)
       ELSE UNCHANGED <<screens, clock_events>>
    /\ last' = Call("ScanScreen.simulate_scan", nav.sm_current, NoName, "None",
                    "none", <<>>, "none", NoValue)
    /\ UNCHANGED <<app_state, nav, now, recorded>>

\* complete_scan of a scan screen, called by the clock
ScanScreen_complete_scan(s) ==
    /\ Running
    /\ clock_events[<<s, "complete_scan">>] > 0
    /\ clock_events[<<s, "proceed_to_pin">>] < MaxPending
    /\ clock_events' = ScheduleOnce(Fired(clock_events, <<s, "complete_scan">>),
                                    <<s, "proceed_to_pin">>)
    /\ last' = Call("ScanScreen.complete_scan", nav.sm_current, NoName, "None",
                    "none", <<>>, "none", NoValue)
    /\ UNCHANGED <<app_state, nav, screens, now, recorded>>

\* proceed_to_pin of a scan screen, called by the clock: set_user on the PIN
\* screen, then navigate_to('pin_entry')
ScanScreen_proceed_to_pin(s) ==
    /\ Running
    /\ clock_events[<<s, "proceed_to_pin">>] > 0
    /\ clock_events' = Fired(clock_events, <<s, "proceed_to_pin">>)
    /\ LET scr == IF s \in screens.navigation_manager /\ "pin_entry" \in nav.screen_registry
                  THEN [screens EXCEPT !.pin_entry.current_user = ScanUser(s)]
                  ELSE screens
       IN  Handled("ScanScreen.proceed_to_pin", "pin_entry", app_state,
                   NavigateTo(s, nav, scr, app_state, "pin_entry", "left"), NoValue)
    /\ UNCHANGED now

\* the screen PinEntryScreen.handle_back_pressed goes back to
PinBackTarget(scr) ==
    IF Contains(Lower(scr.pin_entry.current_user), BiometricWord)
    THEN "biometric_scan"
    ELSE "card_scan"

\* PinEntryScreen.handle_back_pressed
PinEntryScreen_handle_back_pressed ==
    /\ Displayed("pin_entry")
    /\ Handled("PinEntryScreen.handle_back_pressed", PinBackTarget(screens), app_state,
               NavigateTo("pin_entry", nav, screens, app_state, PinBackTarget(screens), "right"),
               NoValue)
    /\ UNCHANGED <<clock_events, now>>

\* PinEntryScreen.validate_pin: [st, target, r]
ValidatePin(n, scr, st, t) ==
    LET p == scr.pin_entry
    IN  IF p.pin_value = DEFAULT_PIN
        THEN LET st1 == StartSession(st, p.current_user,
                            IF Contains(Lower(p.current_user), BiometricWord)
                            THEN "biometric" ELSE "card", t)
             IN  [st |-> st1, target |-> "activity_code",
                  r |-> NavigateTo("pin_entry", n, scr, st1, "activity_code", "left")]
        ELSE LET k    == p.failed_attempts + 1
                 st1  == [st EXCEPT !.failed_attempts = k]
                 scr1 == [scr EXCEPT !.pin_entry.failed_attempts = k]
             IN  IF k >= MAX_PIN_ATTEMPTS
                 THEN [st |-> st1, target |-> "auth_selection",
                       r |-> NavigateTo("pin_entry", n, ResetPinEntry(scr1), st1,
                                        "auth_selection", "right")]
                 ELSE [st |-> st1, target |-> NoName,
                       r |-> NoNavigation(n, [scr1 EXCEPT !.pin_entry.pin_value = <<>>])]

\* PinEntryScreen.on_key_press
PinEntryScreen_on_key_press(key) ==
    /\ Displayed("pin_entry")
    /\ LET p  == screens.pin_entry
           op == "PinEntryScreen.on_key_press"
       IN  IF key = "Clear"
           THEN Handled(op, NoName, app_state,
                        NoNavigation(nav, [screens EXCEPT !.pin_entry.pin_value = <<>>]),
                        NoValue)
           ELSE IF key = "Enter"
           THEN IF Len(p.pin_value) = PIN_LENGTH
                THEN LET v == ValidatePin(nav, screens, app_state, now)
                     IN  Handled(op, v.target, v.st, v.r, NoValue)
                ELSE Handled(op, NoName, app_state, NoNavigation(nav, screens), NoValue)
           ELSE IF key \in Digits /\ Len(p.pin_value) < PIN_LENGTH
           THEN Handled(op, NoName, app_state,
                        NoNavigation(nav, [screens EXCEPT !.pin_entry.pin_value = Append(@, key)]),
                        NoValue)
           ELSE Handled(op, NoName, app_state, NoNavigation(nav, screens), NoValue)
    /\ UNCHANGED <<clock_events, now>>

\* ActivityCodeScreen.handle_back_pressed
ActivityCodeScreen_handle_back_pressed ==
    /\ Displayed("activity_code")
    /\ Handled("ActivityCodeScreen.handle_back_pressed", "pin_entry", app_state,
               NavigateTo("activity_code", nav, screens, app_state, "pin_entry", "right"),
               NoValue)
    /\ UNCHANGED <<clock_events, now>>

\* validate_activity_code that stores the code before it looks at its length
ValidateActivityCode_CommitsShort(n, scr, st, t) ==
    LET code == scr.activity_code.activity_code
        st1  == [st EXCEPT !.activity_code = code]
    IN  IF Len(code) < MIN_ACTIVITY_CODE_LENGTH
        THEN [st |-> st1, target |-> NoName, r |-> NoNavigation(n, scr), summary |-> NoValue]
        ELSE IF "activity_code" \in scr.navigation_manager
             THEN LET c == CompleteActivitySession(n, scr, st1, t, "none")
                  IN  [st |-> c.st, target |-> "main_idle", r |-> c.r,
                       summary |-> c.summary]
             ELSE [st |-> st1, target |-> "main_idle",
                   r |-> NavigateHome("activity_code", n, scr, st1),
                   summary |-> NoValue]

\* ActivityCodeScreen.validate_activity_code: [st, target, r, summary]
ValidateActivityCode(n, scr, st, t) ==
    LET code == scr.activity_code.activity_code
    IN  IF Len(code) < MIN_ACTIVITY_CODE_LENGTH
        THEN [st |-> st, target |-> NoName, r |-> NoNavigation(n, scr), summary |-> NoValue]
        ELSE LET st1 == [st EXCEPT !.activity_code = code]
             IN  IF "activity_code" \in scr.navigation_manager
                 THEN LET c == CompleteActivitySession(n, scr, st1, t, "none")
                      IN  [st |-> c.st, target |-> "main_idle", r |-> c.r,
                           summary |-> c.summary]
                 ELSE [st |-> st1, target |-> "main_idle",
                       r |-> NavigateHome("activity_code", n, scr, st1),
                       summary |-> NoValue]

\* on_key_press that takes digits whatever the length of the code on display
ActivityCodeScreen_on_key_press_NoLimit(key) ==
    /\ Displayed("activity_code")
    /\ LET code == screens.activity_code.activity_code
           op   == "ActivityCodeScreen.on_key_press"
       IN  IF key = "Clear"
           THEN Handled(op, NoName, app_state,
                        NoNavigation(nav, [screens EXCEPT !.activity_code.activity_code = <<>>]),
                        NoValue)
           ELSE IF key = "Enter"
           THEN IF code # <<>>
                THEN LET v == ValidateActivityCode(nav, screens, app_state, now)
                     IN  Handled(op, v.target, v.st, v.r, v.summary)
                ELSE Handled(op, NoName, app_state, NoNavigation(nav, screens), NoValue)
           ELSE IF key \in Digits
           THEN Handled(op, NoName, app_state,
                        NoNavigation(nav, [screens EXCEPT
                                             !.activity_code.activity_code = Append(@, key)]),
                        NoValue)
           ELSE Handled(op, NoName, app_state, NoNavigation(nav, screens), NoValue)
    /\ UNCHANGED <<clock_events, now>>

\* ActivityCodeScreen.on_key_press
ActivityCodeScreen_on_key_press(key) ==
    /\ Displayed("activity_code")
    /\ LET code == screens.activity_code.activity_code
           op   == "ActivityCodeScreen.on_key_press"
       IN  IF key = "Clear"
           THEN Handled(op, NoName, app_state,
                        NoNavigation(nav, [screens EXCEPT !.activity_code.activity_code = <<>>]),
                        NoValue)
           ELSE IF key = "Enter"
           THEN IF code # <<>>
                THEN LET v == ValidateActivityCode(nav, screens, app_state, now)
                     IN  Handled(op, v.target, v.st, v.r, v.summary)
                ELSE Handled(op, NoName, app_state, NoNavigation(nav, screens), NoValue)
           ELSE IF key \in Digits /\ Len(code) < MAX_ACTIVITY_CODE_LENGTH
           THEN Handled(op, NoName, app_state,
                        NoNavigation(nav, [screens EXCEPT
                                             !.activity_code.activity_code = Append(@, key)]),
                        NoValue)
           ELSE Handled(op, NoName, app_state, NoNavigation(nav, screens), NoValue)
    /\ UNCHANGED <<clock_events, now>>

ReturnToMain == <<"emergency_access", "return_to_main">>

\* attempt_emergency_unlock whose lockout schedules no return to main_idle
AttemptEmergencyUnlock_NoReturn(scr, events) ==
    LET e == scr.emergency_access
    IN  IF Len(e.emergency_pin) # PIN_LENGTH
        THEN [screens |-> scr, events |-> events, logged |-> "none"]
        ELSE IF e.emergency_pin = EMERGENCY_PIN
        THEN [screens |-> scr, events |-> ScheduleOnce(events, ReturnToMain),
              logged |-> "access_granted"]
        ELSE LET k == e.failed_attempts + 1
             IN  IF k >= MAX_PIN_ATTEMPTS
                 THEN [screens |-> [scr EXCEPT !.emergency_access.failed_attempts = k],
                       events  |-> events,
                       logged  |-> "security_lockout"]
                 ELSE [screens |-> [scr EXCEPT !.emergency_access.failed_attempts = k,
                                               !.emergency_access.emergency_pin = <<>>],
                       events  |-> events,
                       logged  |-> "access_denied"]

\* EmergencyAccessScreen.attempt_emergency_unlock, with grant_emergency_access
\* and handle_failed_attempt: [screens, events, logged], logged the last
\* action handed to log_emergency_action after 'unlock_attempt'
AttemptEmergencyUnlock(scr, events) ==
    LET e == scr.emergency_access
    IN  IF Len(e.emergency_pin) # PIN_LENGTH
        THEN [screens |-> scr, events |-> events, logged |-> "none"]
        ELSE IF e.emergency_pin = EMERGENCY_PIN
        THEN [screens |-> scr, events |-> ScheduleOnce(events, ReturnToMain),
              logged |-> "access_granted"]
        ELSE LET k == e.failed_attempts + 1
             IN  IF k >= MAX_PIN_ATTEMPTS
                 THEN [screens |-> [scr EXCEPT !.emergency_access.failed_attempts = k],
                       events  |-> ScheduleOnce(events, ReturnToMain),
                       logged  |-> "security_lockout"]
                 ELSE [screens |-> [scr EXCEPT !.emergency_access.failed_attempts = k,
                                               !.emergency_access.emergency_pin = <<>>],
                       events  |-> events,
                       logged  |-> "access_denied"]

\* a handler of the emergency screen that counts a denied attempt in the
\* session as well
EmergencyHandled_CountsInSession(op, scr, events, logged) ==
    /\ events[ReturnToMain] <= MaxPending
    /\ screens' = scr
    /\ clock_events' = events
    /\ last' = Call(op, nav.sm_current, NoName, "None", logged, <<>>, "none", NoValue)
    /\ app_state' = IF logged = "access_denied"
                    THEN [app_state EXCEPT !.failed_attempts = @ + 1]
                    ELSE app_state
    /\ UNCHANGED <<nav, now, recorded>>

\* the effect of a handler of the emergency screen, which never navigates;
\* the outcome on record is the action it logged
EmergencyHandled(op, scr, events, logged) ==
    /\ events[ReturnToMain] <= MaxPending
    /\ screens' = scr
    /\ clock_events' = events
    /\ last' = Call(op, nav.sm_current, NoName, "None", logged, <<>>, "none", NoValue)
    /\ UNCHANGED <<app_state, nav, now, recorded>>

\* EmergencyAccessScreen.on_key_press
EmergencyAccessScreen_on_key_press(key) ==
    /\ Displayed("emergency_access")
    /\ LET e  == screens.emergency_access
           op == "EmergencyAccessScreen.on_key_press"
       IN  IF key = "Clear"
           THEN EmergencyHandled(op, [screens EXCEPT !.emergency_access.emergency_pin = <<>>],
                                 clock_events, "none")
           ELSE IF key = "Enter"
           THEN IF Len(e.emergency_pin) = PIN_LENGTH
                THEN LET a == AttemptEmergencyUnlock(screens, clock_events)
                     IN  EmergencyHandled(op, a.screens, a.events, a.logged)
                ELSE EmergencyHandled(op, screens, clock_events, "none")
           ELSE IF key \in Digits /\ Len(e.emergency_pin) < PIN_LENGTH
           THEN EmergencyHandled(op, [screens EXCEPT
                                        !.emergency_access.emergency_pin = Append(@, key)],
                                 clock_events, "none")
           ELSE EmergencyHandled(op, screens, clock_events, "none")

\* EmergencyAccessScreen.attempt_emergency_unlock, bound to the unlock button
EmergencyAccessScreen_attempt_emergency_unlock ==
    /\ Displayed("emergency_access")
    /\ LET a == AttemptEmergencyUnlock(screens, clock_events)
       IN  EmergencyHandled("EmergencyAccessScreen.attempt_emergency_unlock",
                            a.screens, a.events, a.logged)

\* EmergencyAccessScreen.cancel_emergency
EmergencyAccessScreen_cancel_emergency ==
    /\ Displayed("emergency_access")
    /\ EmergencyHandled("EmergencyAccessScreen.cancel_emergency", screens,
                        ScheduleOnce(clock_events, ReturnToMain), "none")

\* EmergencyAccessScreen.return_to_main, called by the clock
EmergencyAccessScreen_return_to_main ==
    /\ Running
    /\ clock_events[ReturnToMain] > 0
    /\ clock_events' = Fired(clock_events, ReturnToMain)
    /\ Handled("EmergencyAccessScreen.return_to_main", "main_idle", app_state,
               NavigateHome("emergency_access", nav, screens, app_state), NoValue)
    /\ UNCHANGED now

\* AMSApp._monitor_system_health, called by the clock every second
AMSApp_monitor_system_health ==
    /\ Running
    /\ nav # InitNav
    /\ Handled("AMSApp._monitor_system_health", "main_idle", app_state,
               IF nav.sm_current_screen = NoName
               THEN SetCurrent(nav, screens, app_state, "main_idle", "left", "none")
               ELSE NoNavigation(nav, screens),
               NoValue)
    /\ UNCHANGED <<clock_events, now>>

\* AMSApp.on_stop: the application shuts down
AMSApp_on_stop ==
    /\ Running
    /\ nav # InitNav
    /\ LET r == Cleanup(nav, screens)
       IN  /\ nav' = r.nav
           /\ screens' = r.screens
    /\ last' = Call("on_stop", nav.sm_current, NoName, "None", "none", <<>>, "none", NoValue)
    /\ UNCHANGED <<app_state, clock_events, now, recorded>>

AppBound == recorded < MaxAppNav

AppNext ==
    \/ register_screens
    \/ AppBound /\ MainIdleScreen_on_start_pressed
    \/ AppBound /\ MainIdleScreen_open_configuration
    \/ AppBound /\ MainIdleScreen_handle_emergency_access
    \/ AppBound /\ AuthSelectionScreen_handle_back_pressed
    \/ AppBound /\ AuthSelectionScreen_select_card_auth
    \/ AppBound /\ AuthSelectionScreen_select_biometric_auth
    \/ AppBound /\ ConfigurationScreen_handle_back_pressed
    \/ AppBound /\ \E s \in ScanScreens : ScanScreen_handle_back_pressed(s)
    \/ AppBound /\ \E s \in ScanScreens : ScanScreen_simulate_scan(s)
    \/ AppBound /\ \E s \in ScanScreens : ScanScreen_complete_scan(s)
    \/ AppBound /\ \E s \in ScanScreens : ScanScreen_proceed_to_pin(s)
    \/ AppBound /\ PinEntryScreen_handle_back_pressed
    \/ AppBound /\ \E key \in KeyInputs(screens.pin_entry.pin_value, PinInputs) :
           PinEntryScreen_on_key_press(key)
    \/ AppBound /\ ActivityCodeScreen_handle_back_pressed
    \/ AppBound /\ \E key \in KeyInputs(screens.activity_code.activity_code, ActivityCodeInputs) :
           ActivityCodeScreen_on_key_press(key)
    \/ AppBound /\ \E key \in KeyInputs(screens.emergency_access.emergency_pin, PinInputs) :
           EmergencyAccessScreen_on_key_press(key)
    \/ AppBound /\ EmergencyAccessScreen_attempt_emergency_unlock
    \/ AppBound /\ EmergencyAccessScreen_cancel_emergency
    \/ AppBound /\ EmergencyAccessScreen_return_to_main
    \/ AppBound /\ AMSApp_monitor_system_health
    \/ AMSApp_on_stop

SpecApp == Init /\ [][AppNext]_vars

\* the application left running: no on_stop, and the clock calls a scheduled
\* return_to_main whatever the number of navigations made
RunningNext ==
    \/ register_screens
    \/ AppBound /\ MainIdleScreen_on_start_pressed
    \/ AppBound /\ MainIdleScreen_open_configuration
    \/ AppBound /\ MainIdleScreen_handle_emergency_access
    \/ AppBound /\ AuthSelectionScreen_handle_back_pressed
    \/ AppBound /\ ConfigurationScreen_handle_back_pressed
    \/ AppBound /\ \E key \in KeyInputs(screens.emergency_access.emergency_pin, PinInputs) :
           EmergencyAccessScreen_on_key_press(key)
    \/ AppBound /\ EmergencyAccessScreen_attempt_emergency_unlock
    \/ AppBound /\ EmergencyAccessScreen_cancel_emergency
    \/ EmergencyAccessScreen_return_to_main
    \/ AppBound /\ AMSApp_monitor_system_health

\* at most MaxIdle periods in which the panel is left alone
MaxIdle == 1

\* a period longer than the session timeout, in ticks
IdleTicks == SESSION_TIMEOUT_MINUTES * 60 * TicksPerSecond + 1

\* the panel is left alone for longer than the session timeout: datetime.now()
\* moves on and no handler runs
Idle ==
    /\ Running
    /\ now < MaxIdle * IdleTicks
    /\ now' = now + IdleTicks
    /\ UNCHANGED <<app_state, nav, screens, clock_events, recorded, last>>

\* a login by card at the panel, idle periods, and the health monitor the
\* clock calls every second
TimeoutNext ==
    \/ register_screens
    \/ AppBound /\ MainIdleScreen_on_start_pressed
    \/ AppBound /\ AuthSelectionScreen_select_card_auth
    \/ AppBound /\ ScanScreen_simulate_scan("card_scan")
    \/ AppBound /\ ScanScreen_complete_scan("card_scan")
    \/ AppBound /\ ScanScreen_proceed_to_pin("card_scan")
    \/ AppBound /\ \E key \in KeyInputs(screens.pin_entry.pin_value, PinInputs) :
           PinEntryScreen_on_key_press(key)
    \/ AppBound /\ \E key \in KeyInputs(screens.activity_code.activity_code, ActivityCodeInputs) :
           ActivityCodeScreen_on_key_press(key)
    \/ AppBound /\ AMSApp_monitor_system_health
    \/ Idle

SpecTimeout == Init /\ [][TimeoutNext]_vars

\* kivy's Clock calls every callback scheduled with schedule_once while the
\* application runs
SpecRunning ==
    Init /\ [][RunningNext]_vars /\ WF_vars(EmergencyAccessScreen_return_to_main)

\* at most MaxLogin navigations are recorded while a user logs in and backs
\* out: the way to the activity code and the way back take nine
MaxLogin == 9

LoginBound == recorded < MaxLogin

\* the login at the panel with every back button on its way
LoginNext ==
    \/ register_screens
    \/ LoginBound /\ MainIdleScreen_on_start_pressed
    \/ LoginBound /\ AuthSelectionScreen_handle_back_pressed
    \/ LoginBound /\ AuthSelectionScreen_select_card_auth
    \/ LoginBound /\ AuthSelectionScreen_select_biometric_auth
    \/ LoginBound /\ \E s \in ScanScreens : ScanScreen_handle_back_pressed(s)
    \/ LoginBound /\ \E s \in ScanScreens : ScanScreen_simulate_scan(s)
    \/ LoginBound /\ \E s \in ScanScreens : ScanScreen_complete_scan(s)
    \/ LoginBound /\ \E s \in ScanScreens : ScanScreen_proceed_to_pin(s)
    \/ LoginBound /\ PinEntryScreen_handle_back_pressed
    \/ LoginBound /\ \E key \in KeyInputs(screens.pin_entry.pin_value, {DEFAULT_PIN}) :
           PinEntryScreen_on_key_press(key)
    \/ LoginBound /\ ActivityCodeScreen_handle_back_pressed

SpecLogin == Init /\ [][LoginNext]_vars

\* at most MaxOverride navigations are recorded while a user logs in by
\* card, backs out and asks for emergency access: nine to be back at
\* main_idle with the session, two more to the emergency screen and back
MaxOverride == 11

OverrideBound == recorded < MaxOverride

\* a login by card, every back button on its way, and the emergency screen,
\* which the user asks for once a session is under way
OverrideNext ==
    \/ register_screens
    \/ OverrideBound /\ MainIdleScreen_on_start_pressed
    \/ OverrideBound /\ AuthSelectionScreen_handle_back_pressed
    \/ OverrideBound /\ AuthSelectionScreen_select_card_auth
    \/ OverrideBound /\ ScanScreen_handle_back_pressed("card_scan")
    \/ OverrideBound /\ ScanScreen_simulate_scan("card_scan")
    \/ OverrideBound /\ ScanScreen_complete_scan("card_scan")
    \/ OverrideBound /\ ScanScreen_proceed_to_pin("card_scan")
    \/ OverrideBound /\ PinEntryScreen_handle_back_pressed
    \/ OverrideBound /\ \E key \in KeyInputs(screens.pin_entry.pin_value, {DEFAULT_PIN}) :
           PinEntryScreen_on_key_press(key)
    \/ OverrideBound /\ ActivityCodeScreen_handle_back_pressed
    \/ OverrideBound /\ app_state.session_active /\ MainIdleScreen_handle_emergency_access
    \/ OverrideBound /\ \E key \in KeyInputs(screens.emergency_access.emergency_pin, PinInputs) :
           EmergencyAccessScreen_on_key_press(key)
    \/ OverrideBound /\ EmergencyAccessScreen_attempt_emergency_unlock
    \/ OverrideBound /\ EmergencyAccessScreen_cancel_emergency
    \/ OverrideBound /\ EmergencyAccessScreen_return_to_main

SpecOverride == Init /\ [][OverrideNext]_vars

(***************************************************************************)
(* Navigation claims                                                       *)
(***************************************************************************)
\* the three cases in which the specification lets a navigation through
Permitted(from_screen, to_screen) ==
    \/ to_screen = "main_idle"
    \/ /\ from_screen \in DOMAIN navigation_rules
       /\ to_screen \in navigation_rules[from_screen]
    \/ from_screen \notin DOMAIN navigation_rules

HomeCall ==
    \/ last.op = "go_home"
    \/ last.op = "set_current" /\ last.target = "main_idle"

C3_RejectedChangesNothing ==
    [][ last'.outcome = "blocked" =>
            /\ last'.ret = "False"
            /\ last'.hooks = <<>>
            /\ UNCHANGED <<nav, screens, app_state, recorded>> ]_vars

\* C3 witness: a navigation has been rejected while the history was not empty
C3_Witness ==
    /\ last.op = "set_current"
    /\ last.outcome = "blocked"
    /\ last.from = "main_idle"
    /\ last.target = "pin_entry"
    /\ nav.navigation_history # <<>>

\* C5 as stated: in every state of the navigation manager the active screen
\* name is a key of screen_registry (stated here for a manager that was given
\* a screen: with no screen at all the name is None and the registry empty)
C5_ActiveScreenRegistered ==
    nav.sm_screens # {} => nav.sm_current \in nav.screen_registry

\* h after one more entry, the oldest dropped once there are more than 50
OldestDropped(h) == IF Len(h) > HISTORY_LIMIT THEN Tail(h) ELSE h

\* C4: the history never holds more than 50 entries, and each recorded
\* navigation appends its {from, to} entry and, past 50, evicts the oldest
\* entry only, the others keeping their order
C4_HistoryKeepsLast50 ==
    [][ /\ Len(nav'.navigation_history) <= HISTORY_LIMIT
        /\ recorded' # recorded =>
              nav'.navigation_history =
                  OldestDropped(Append(nav.navigation_history,
                      [from       |-> last'.from,
                       to         |-> last'.target,
                       timestamp  |-> app_state.current_user,
                       session_id |-> app_state.session_id])) ]_vars

\* C4 witness: 51 navigations were recorded, 50 are kept, and the second
\* navigation (to auth_selection) is now the oldest entry
C4_Witness ==
    /\ recorded = HISTORY_LIMIT + 1
    /\ Len(nav.navigation_history) = HISTORY_LIMIT
    /\ nav.navigation_history[1].to = "auth_selection"
    /\ nav.navigation_history[HISTORY_LIMIT].to = "main_idle"

EventCount(events, slot) ==
    Cardinality({i \in 1..Len(events) : events[i].slot = slot})

\* C7 as stated: a key is 'removed' iff its slot has one more removal event
\* than return events, and 'available' iff it has as many
C7_StatusMatchesAudit ==
    \A i \in 1..Len(app_state.accessible_keys) :
        LET key  == app_state.accessible_keys[i]
            open == EventCount(app_state.removed_keys, key.slot)
                    - EventCount(app_state.returned_keys, key.slot)
        IN  /\ key.status = "removed" <=> open = 1
            /\ key.status = "available" <=> open = 0

\* C8 as stated: the state after start_session(u, m) is the state that
\* start_session(u, m) gives at the same time on a freshly reset SessionState
C8_StartSessionOverwrites ==
    last.op = "start_session" =>
        app_state = StartSession(ResetState, app_state.current_user,
                                 app_state.authentication_method,
                                 app_state.login_time[1])

\* C9 as stated: end_session right after start_session returns a summary
\* with keys_removed = 0 and keys_returned = 0 and leaves no session active
C9_ImmediateEndIsEmpty ==
    [][ (last.op = "start_session" /\ last'.op = "end_session") =>
            /\ last'.summary # NoValue
            /\ last'.summary[1].keys_removed = 0
            /\ last'.summary[1].keys_returned = 0
            /\ ~app_state'.session_active ]_vars

(***************************************************************************)
(* Application claims                                                      *)
(***************************************************************************)
\* C10 as stated: in every execution of the application a session becomes
\* active only inside NavigationManager.handle_authentication_success
C10_SoleSessionTrigger ==
    [][ (~app_state.session_active /\ app_state'.session_active) =>
            last'.op = "handle_authentication_success" ]_vars

(***************************************************************************)
(* Session-lifecycle claims of the navigation manager                      *)
(***************************************************************************)
\* a step in which the session stops being active
SessionDestroyed == app_state.session_active /\ ~app_state'.session_active

\* C11 as stated: complete_activity_session ends the session (the state is
\* the reset state when a session was active) and leaves main_idle as the
\* active screen, and a session stops being active only inside it
C11_CompleteEndsSessionAtHome ==
    [][ /\ SessionDestroyed => last'.op = "complete_activity_session"
        /\ last'.op = "complete_activity_session" =>
              /\ ~app_state'.session_active
              /\ app_state.session_active => app_state' = ResetState
              /\ nav'.sm_current = "main_idle" ]_vars

\* C11 amended: complete_activity_session ends the session whatever the
\* navigation does, is never rejected by validation, and leaves main_idle
\* active whenever main_idle is a screen of the screen manager and no hook
\* raises; a session stops being active only inside it
C11_CompleteEndsSession ==
    [][ /\ SessionDestroyed => last'.op = "complete_activity_session"
        /\ last'.op = "complete_activity_session" =>
              /\ ~app_state'.session_active
              /\ app_state.session_active =>
                     /\ app_state' = ResetState
                     /\ last'.summary = <<Summary(app_state, now)>>
              /\ last'.outcome # "blocked"
              /\ ("main_idle" \in nav'.sm_screens /\ last'.raised \notin {"exit", "enter"}) =>
                     (last'.ret = "True" /\ nav'.sm_current = "main_idle") ]_vars

\* C11 witness: called on activity_code with a session active, it has ended
\* the session, returned its summary and reached main_idle
C11_Witness ==
    /\ last.op = "complete_activity_session"
    /\ last.from = "activity_code"
    /\ last.summary # NoValue
    /\ last.summary[1].user = Alice
    /\ app_state = ResetState
    /\ last.ret = "True"
    /\ nav.sm_current = "main_idle"

\* C12 as stated: a handle_authentication_failure call that brings the count
\* to MAX_PIN_ATTEMPTS resets failed_attempts to 0 and makes auth_selection
\* the active screen, from whatever screen it is reported; a call below the
\* maximum adds one to failed_attempts and leaves the navigation manager as
\* it was
C12_ThirdFailureForcesAuthSelection ==
    [][ last'.op = "handle_authentication_failure" =>
            IF app_state.failed_attempts + 1 >= MAX_PIN_ATTEMPTS
            THEN /\ app_state'.failed_attempts = 0
                 /\ nav'.sm_current = "auth_selection"
            ELSE /\ app_state'.failed_attempts = app_state.failed_attempts + 1
                 /\ UNCHANGED nav ]_vars


(***************************************************************************)
(* PIN screen claims                                                       *)
(***************************************************************************)
\* a step in which Enter submits a wrong PIN of full length on the PIN screen:
\* the only key press that changes the screen's count of failed attempts
WrongPinSubmitted ==
    /\ last'.op = "PinEntryScreen.on_key_press"
    /\ Len(screens.pin_entry.pin_value) = PIN_LENGTH
    /\ screens.pin_entry.pin_value # DEFAULT_PIN
    /\ screens'.pin_entry.failed_attempts # screens.pin_entry.failed_attempts

\* C13: the wrong PIN that reaches MAX_PIN_ATTEMPTS leaves auth_selection or
\* main_idle as the active screen and SessionState.failed_attempts at 0; a
\* wrong PIN below the limit leaves pin_entry as the active screen
C13_LockoutLeavesPinEntry ==
    [][ WrongPinSubmitted =>
            IF screens.pin_entry.failed_attempts + 1 >= MAX_PIN_ATTEMPTS
            THEN /\ nav'.sm_current \in {"auth_selection", "main_idle"}
                 /\ app_state'.failed_attempts = 0
            ELSE nav'.sm_current = "pin_entry" ]_vars


(***************************************************************************)
(* The login journey                                                       *)
(***************************************************************************)
\* the navigations of the journey that are accepted, in their order
JourneySteps ==
    << <<"main_idle", "auth_selection">>,
       <<"auth_selection", "card_scan">>,
       <<"card_scan", "pin_entry">> >>

\* C14: with the screens registered, set_current('pin_entry') from main_idle
\* is rejected and changes nothing of the navigation; set_current to
\* auth_selection from main_idle, to card_scan from auth_selection and to
\* pin_entry from card_scan are accepted; handle_authentication_success(
\* 'alice', 'card') from pin_entry leaves the session active, the three
\* standard keys accessible and activity_code the active screen
C14_LoginJourney ==
    [][ /\ (nav.sm_current = "main_idle" /\ last'.op = "set_current"
                                         /\ last'.target = "pin_entry")
               => (last'.ret = "False" /\ nav' = nav /\ screens' = screens)
        /\ \A i \in 1..Len(JourneySteps) :
               (nav.sm_current = JourneySteps[i][1] /\ last'.op = "set_current"
                                                    /\ last'.target = JourneySteps[i][2])
                   => (last'.ret = "True" /\ nav'.sm_current = JourneySteps[i][2])
        /\ (nav.sm_current = "pin_entry" /\ last'.op = "handle_authentication_success")
               => /\ app_state'.session_active
                  /\ app_state'.current_user = Alice
                  /\ app_state'.accessible_keys = StandardKeys
                  /\ Len(app_state'.accessible_keys) = 3
                  /\ last'.ret = "True"
                  /\ nav'.sm_current = "activity_code" ]_vars


\* the journey has been made: the last four navigations recorded are its
\* three steps and the one to activity_code, and alice's session is active
C14_Witness ==
    /\ last.op = "handle_authentication_success"
    /\ last.from = "pin_entry"
    /\ Len(nav.navigation_history) > Len(JourneySteps)
    /\ LET k == Len(nav.navigation_history) - Len(JourneySteps) - 1
       IN  /\ \A i \in 1..Len(JourneySteps) :
                  /\ nav.navigation_history[k + i].from = JourneySteps[i][1]
                  /\ nav.navigation_history[k + i].to = JourneySteps[i][2]
           /\ nav.navigation_history[k + 4].from = "pin_entry"
           /\ nav.navigation_history[k + 4].to = "activity_code"
    /\ nav.sm_current = "activity_code"
    /\ app_state.session_active
    /\ app_state.accessible_keys = StandardKeys


(***************************************************************************)
(* Key removal and return                                                  *)
(***************************************************************************)
\* the status of the key at slot among the accessible keys
StatusOf(st, slot) ==
    LET hits == {i \in 1..Len(st.accessible_keys) : st.accessible_keys[i].slot = slot}
    IN  IF hits = {} THEN "absent"
        ELSE st.accessible_keys[CHOOSE i \in hits : \A j \in hits : i <= j].status

\* the keys at the other slots are as they were
OtherKeysKept(slot) ==
    /\ Len(app_state'.accessible_keys) = Len(app_state.accessible_keys)
    /\ \A i \in 1..Len(app_state.accessible_keys) :
           app_state.accessible_keys[i].slot # slot
               => app_state'.accessible_keys[i] = app_state.accessible_keys[i]

\* after is before with exactly one event more, for slot
OneEventMore(before, after, slot) ==
    /\ Len(after) = Len(before) + 1
    /\ SubSeq(after, 1, Len(before)) = before
    /\ after[Len(after)].slot = slot

\* C15: in an active session, remove_key of a slot whose key is available
\* returns True, marks that key removed, appends one event for the slot to
\* removed_keys and keeps the other keys; return_key of the same slot then
\* returns True, appends one event for the slot to returned_keys, keeps the
\* other keys and leaves the accessible keys as they were before the removal
C15_RemoveThenReturnRestores ==
    [][ \A slot \in SlotInputs :
          /\ ( /\ app_state.session_active
               /\ StatusOf(app_state, slot) = "available"
               /\ remove_key(slot) )
             => /\ last'.ret = "True"
                /\ StatusOf(app_state', slot) = "removed"
                /\ OtherKeysKept(slot)
                /\ OneEventMore(app_state.removed_keys, app_state'.removed_keys, slot)
                /\ app_state'.returned_keys = app_state.returned_keys
                /\ LET back == ReturnKey(app_state', slot, now)
                   IN  /\ back.ret
                       /\ back.st.accessible_keys = app_state.accessible_keys
                       /\ back.st.removed_keys = app_state'.removed_keys
                       /\ OneEventMore(app_state.returned_keys, back.st.returned_keys, slot)
          /\ ( /\ app_state.session_active
               /\ StatusOf(app_state, slot) = "removed"
               /\ return_key(slot) )
             => /\ last'.ret = "True"
                /\ StatusOf(app_state', slot) = "available"
                /\ OtherKeysKept(slot)
                /\ OneEventMore(app_state.returned_keys, app_state'.returned_keys, slot)
                /\ app_state'.removed_keys = app_state.removed_keys ]_vars

\* a key was removed and then returned in an active session
C15_Witness ==
    /\ last.op = "return_key"
    /\ last.ret = "True"
    /\ app_state.session_active
    /\ app_state.removed_keys # <<>>
    /\ app_state.returned_keys # <<>>
    /\ LET rm == app_state.removed_keys[Len(app_state.removed_keys)]
           rt == app_state.returned_keys[Len(app_state.returned_keys)]
       IN  /\ rm.slot = rt.slot
           /\ rm.session_id = app_state.session_id
           /\ rt.session_id = app_state.session_id
           /\ StatusOf(app_state, rt.slot) = "available"


\* C16: remove_key of a slot that is absent from accessible_keys or whose key
\* is already removed returns False and leaves SessionState as it was;
\* return_key of a slot whose key is not removed does the same
C16_RefusedKeyCallChangesNothing ==
    [][ \A slot \in SlotInputs :
          /\ ( /\ StatusOf(app_state, slot) # "available"
               /\ last'.op = "remove_key" /\ now' = now
               /\ app_state' = RemoveKey(app_state, slot, now).st )
             => /\ last'.ret = "False"
                /\ app_state' = app_state
          /\ ( /\ StatusOf(app_state, slot) # "removed"
               /\ last'.op = "return_key" /\ now' = now
               /\ app_state' = ReturnKey(app_state, slot, now).st )
             => /\ last'.ret = "False"
                /\ app_state' = app_state ]_vars

\* remove_key has returned False in a session in which no key is available at
\* the slots it is called with: the key of slot 1 is removed, with that one
\* removal on record, and slots 2 and 9 are absent
C16_Witness ==
    /\ last.op = "remove_key"
    /\ last.ret = "False"
    /\ app_state.session_active
    /\ StatusOf(app_state, 1) = "removed"
    /\ StatusOf(app_state, 2) = "absent"
    /\ StatusOf(app_state, 9) = "absent"
    /\ Len(app_state.removed_keys) = 1


(***************************************************************************)
(* End of a session                                                        *)
(***************************************************************************)
\* C17: end_session without an active session returns None and leaves
\* SessionState as it was; with an active session it returns a summary whose
\* user, method, session_id, failed attempts, event lists and counts are the
\* values held before the call, and every field of SessionState has its
\* initial value afterwards
C17_EndSessionSummarisesAndResets ==
    [][ (last'.op = "end_session" /\ now' = now) =>
            IF ~app_state.session_active
            THEN /\ last'.ret = "None"
                 /\ last'.summary = NoValue
                 /\ app_state' = app_state
            ELSE /\ last'.summary # NoValue
                 /\ LET s == last'.summary[1]
                    IN  /\ s.user = app_state.current_user
                        /\ s.auth_method = app_state.authentication_method
                        /\ s.session_id = app_state.session_id
                        /\ s.login_time = app_state.login_time
                        /\ s.end_time = now
                        /\ s.failed_attempts = app_state.failed_attempts
                        /\ s.removed_keys = app_state.removed_keys
                        /\ s.returned_keys = app_state.returned_keys
                        /\ s.keys_removed = Len(app_state.removed_keys)
                        /\ s.keys_returned = Len(app_state.returned_keys)
                 /\ app_state' = ResetState ]_vars

\* a session with a key removed and returned has ended: the summary holds the
\* two events and SessionState holds none
C17_Witness ==
    /\ last.op = "end_session"
    /\ last.ret = "summary"
    /\ last.summary # NoValue
    /\ last.summary[1].user = BobAdmin
    /\ last.summary[1].keys_removed = 1
    /\ last.summary[1].keys_returned = 1
    /\ last.summary[1].removed_keys[1].slot = 2
    /\ app_state = ResetState


(***************************************************************************)
(* Session identifiers                                                     *)
(***************************************************************************)
\* a step that is a call of one of ops (the clock alone moves in no call)
CallOf(ops) == last'.op \in ops /\ now' = now

\* C18: a start_session call gives the new session a session_id different
\* from that of the session it replaces and from that of the session that
\* end_session has just ended, and no step other than a start_session or an
\* end_session call changes session_id
C18_SessionIdUniqueAndFixed ==
    [][ /\ CallOf({"start_session"}) =>
              /\ app_state.session_id # NoValue
                     => app_state'.session_id # app_state.session_id
              /\ (last.op = "end_session" /\ last.summary # NoValue)
                     => app_state'.session_id # last.summary[1].session_id
        /\ ~CallOf({"start_session", "end_session"}) =>
              app_state'.session_id = app_state.session_id ]_vars


(***************************************************************************)
(* Emergency access                                                        *)
(***************************************************************************)
\* a step in which the emergency PIN on display is submitted, by Enter or by
\* the unlock button
EmergencySubmitted ==
    /\ Displayed("emergency_access")
    /\ Len(screens.emergency_access.emergency_pin) = PIN_LENGTH
    /\ \/ last'.op = "EmergencyAccessScreen.attempt_emergency_unlock"
       \/ /\ last'.op = "EmergencyAccessScreen.on_key_press"
          /\ last'.outcome # "none"

\* C19: a submission of the correct emergency PIN grants emergency access; a
\* wrong submission is a lockout exactly when it is at least the
\* MAX_PIN_ATTEMPTS-th since the screen was entered; and after a lockout the
\* active screen eventually becomes main_idle
C19_EmergencyGrantAndLockout ==
    /\ [][ EmergencySubmitted =>
              IF screens.emergency_access.emergency_pin = EMERGENCY_PIN
              THEN /\ last'.outcome = "access_granted"
                   /\ screens'.emergency_access.failed_attempts =
                          screens.emergency_access.failed_attempts
              ELSE /\ screens'.emergency_access.failed_attempts =
                          screens.emergency_access.failed_attempts + 1
                   /\ last'.outcome =
                          IF screens.emergency_access.failed_attempts + 1 >= MAX_PIN_ATTEMPTS
                          THEN "security_lockout" ELSE "access_denied"
                   /\ last'.outcome = "security_lockout"
                          => clock_events'[ReturnToMain] > 0 ]_vars
    /\ (last.outcome = "security_lockout") ~> (nav.sm_current = "main_idle")

\* the return scheduled by a lockout has brought the user home
C19_Witness ==
    /\ last.op = "EmergencyAccessScreen.return_to_main"
    /\ last.from = "emergency_access"
    /\ last.ret = "None"
    /\ last.outcome = "ok"
    /\ screens.emergency_access.failed_attempts = MAX_PIN_ATTEMPTS
    /\ nav.sm_current = "main_idle"
    /\ clock_events[ReturnToMain] = 0


(***************************************************************************)
(* Session timeout                                                         *)
(***************************************************************************)
\* C20: a call of the health monitor that finds an active session whose
\* duration exceeds SESSION_TIMEOUT_MINUTES ends that session
C20_MonitorEndsExpiredSession ==
    [][ ( /\ CallOf({"AMSApp._monitor_system_health"})
          /\ app_state.session_active
          /\ IsSessionExpired(app_state, now) )
        => ~app_state'.session_active ]_vars


(***************************************************************************)
(* Key inventories                                                         *)
(***************************************************************************)
\* the lower-cased name contains 'supervisor', 'admin' or 'manager'
HasRole(u) == \E role \in RoleWords : Contains(Lower(u), role)

\* the slots of keys, in their order
SlotsOf(keys) == [i \in 1..Len(keys) |-> keys[i].slot]

\* every key is available and no slot occurs twice
FreshInventory(keys) ==
    /\ \A i \in 1..Len(keys) : keys[i].status = "available"
    /\ \A i, j \in 1..Len(keys) : keys[i].slot = keys[j].slot => i = j

\* C21 as stated: start_session loads the 8 slots iff the lower-cased user
\* name contains a role word and otherwise the 3 slots 1, 5, 4, every key
\* available and the slots distinct
C21_RoleOrRestricted ==
    [][ CallOf({"start_session"}) =>
            LET keys == app_state'.accessible_keys
            IN  /\ IF HasRole(app_state'.current_user)
                   THEN SlotsOf(keys) = <<1, 2, 3, 4, 5, 6, 7, 8>>
                   ELSE SlotsOf(keys) = <<1, 5, 4>>
                /\ FreshInventory(keys) ]_vars

\* C21 amended: a user name that is empty or None gets no key at all; any
\* other name gets the 8 slots iff lower-cased it contains a role word, and
\* otherwise the 3 slots 1, 5, 4; every key is available, the slots distinct
C21_RoleRestrictedOrNone ==
    [][ CallOf({"start_session"}) =>
            LET keys == app_state'.accessible_keys
                u    == app_state'.current_user
            IN  /\ IF u = None \/ u = <<>>
                   THEN keys = <<>>
                   ELSE IF HasRole(u)
                   THEN SlotsOf(keys) = <<1, 2, 3, 4, 5, 6, 7, 8>>
                   ELSE SlotsOf(keys) = <<1, 5, 4>>
                /\ FreshInventory(keys) ]_vars

\* a session started for 'ADMIN' right after one in which a key was removed:
\* the role is found in the lower-cased name and the 8 keys are available
C21_Witness ==
    /\ last.op = "start_session"
    /\ app_state.current_user = UpperAdmin
    /\ app_state.removed_keys # <<>>
    /\ Len(app_state.accessible_keys) = 8
    /\ FreshInventory(app_state.accessible_keys)


(***************************************************************************)
(* go_back                                                                 *)
(***************************************************************************)
\* the screen a go_back call is to ask for, read off the history h
BackTo(h) == IF Len(h) < 2 THEN "main_idle" ELSE h[Len(h) - 1].from

\* what every go_back call does, whatever it does to the history: it asks
\* for BackTo, it is refused exactly when the rules refuse that screen, and
\* when it returns True that screen is the active one
GoBackAsksFor ==
    /\ last'.target = BackTo(nav.navigation_history)
    /\ last'.from = nav.sm_current
    /\ last'.outcome = "blocked" <=> ~Permitted(nav.sm_current, last'.target)
    /\ last'.ret = "True" => nav'.sm_current = last'.target

\* C22 as stated: go_back asks for main_idle with fewer than 2 entries in the
\* history and for the `from` of the second-to-last entry otherwise; every
\* entry of the history stays where it was; a go_back that returns True makes
\* the history one entry longer
C22_GoBackKeepsEveryEntry ==
    [][ last'.op = "go_back" =>
            LET h  == nav.navigation_history
                h1 == nav'.navigation_history
            IN  /\ GoBackAsksFor
                /\ Len(h1) >= Len(h)
                /\ \A i \in 1..Len(h) : h1[i] = h[i]
                /\ last'.ret = "True" => Len(h1) = Len(h) + 1 ]_vars

\* C22 amended: go_back asks for the same screen; the history afterwards is
\* the one before, or the one before with one entry {from: active screen,
\* to: the screen asked for} appended and cut to its last HISTORY_LIMIT
\* entries; a go_back that returns True has appended that entry
C22_GoBackAppendsAndTrims ==
    [][ last'.op = "go_back" =>
            LET h  == nav.navigation_history
                h1 == nav'.navigation_history
                e  == NavigationEvent(app_state, nav.sm_current, BackTo(h))
            IN  /\ GoBackAsksFor
                /\ h1 \in {h, LastEntries(Append(h, e))}
                /\ last'.outcome # "blocked" => h1 = LastEntries(Append(h, e))
                /\ Len(h) < HISTORY_LIMIT => \A i \in 1..Len(h) : h1[i] = h[i] ]_vars

\* go_back has gone from auth_selection back to main_idle, the `from` of the
\* second-to-last entry, and the three entries before it are still there
C22_Witness ==
    /\ last.op = "go_back"
    /\ last.ret = "True"
    /\ last.from = "auth_selection"
    /\ last.target = "main_idle"
    /\ Len(nav.navigation_history) = 4
    /\ nav.navigation_history[2].from = "main_idle"
    /\ nav.navigation_history[3].to = "auth_selection"
    /\ nav.navigation_history[4].from = "auth_selection"
    /\ nav.navigation_history[4].to = "main_idle"


(***************************************************************************)
(* What the history holds                                                  *)
(***************************************************************************)
\* C23 as stated: every entry {from, to} of navigation_history has to equal
\* to main_idle or to a member of navigation_rules[from]
C23_HistoryWithinRules ==
    \A i \in 1..Len(nav.navigation_history) :
        LET e == nav.navigation_history[i]
        IN  \/ e.to = "main_idle"
            \/ /\ e.from \in DOMAIN navigation_rules
               /\ e.to \in navigation_rules[e.from]

\* C23 amended: every entry {from, to} of navigation_history has to equal to
\* main_idle, or to a member of navigation_rules[from], or from without an
\* entry in navigation_rules
C23_HistoryWithinValidation ==
    \A i \in 1..Len(nav.navigation_history) :
        LET e == nav.navigation_history[i]
        IN  \/ e.to = "main_idle"
            \/ /\ e.from \in DOMAIN navigation_rules
               /\ e.to \in navigation_rules[e.from]
            \/ e.from \notin DOMAIN navigation_rules

\* the history holds a navigation from a screen without rules and one that a
\* rule allows
C23_Witness ==
    /\ Len(nav.navigation_history) = 2
    /\ nav.navigation_history[1].from = ExtraScreen
    /\ nav.navigation_history[1].to = "pin_entry"
    /\ nav.navigation_history[2].from = "pin_entry"
    /\ nav.navigation_history[2].to = "activity_code"


RuleDestinations ==
    UNION {navigation_rules[screen] : screen \in DOMAIN navigation_rules}

\* C25: validate_screen_integrity returns True iff the ScreenManager and the
\* registry hold the same names, the active screen is registered and every
\* destination of the rules is registered; it returns True right after the
\* application registered its screens and False right after cleanup and
\* whenever a destination of the rules is not registered; it changes nothing
C25_IntegrityVerdict ==
    [][ last'.op = "validate_screen_integrity" =>
            /\ last'.ret \in {"True", "False"}
            /\ last'.ret = "True" <=>
                   /\ nav.sm_screens = nav.screen_registry
                   /\ nav.sm_current \in nav.screen_registry
                   /\ RuleDestinations \subseteq nav.screen_registry
            /\ last.op = "register_screens" => last'.ret = "True"
            /\ last.op = "cleanup" => last'.ret = "False"
            /\ (\E dest \in RuleDestinations : dest \notin nav.screen_registry)
                   => last'.ret = "False"
            /\ UNCHANGED <<app_state, nav, screens, clock_events, now, recorded>> ]_vars

\* the check has passed on the eight screens the application registered
C25_Witness ==
    /\ last.op = "validate_screen_integrity"
    /\ last.ret = "True"
    /\ nav.screen_registry = RuleDestinations
    /\ Cardinality(nav.screen_registry) = 8
    /\ nav.navigation_history # <<>>


(***************************************************************************)
(* The direction of a transition                                           *)
(***************************************************************************)
\* the directions a caller passes: the two transitions, and none
AnyDirection == Directions \cup {"left"}

\* what a set_current call leaves behind apart from the transition's
\* direction and the direction-free part of its result
Semantics(r) ==
    [ ret     |-> r.ret,
      outcome |-> r.outcome,
      hooks   |-> r.hooks,
      raised  |-> r.raised,
      nav     |-> [r.nav EXCEPT !.direction = ""],
      screens |-> r.screens ]

\* C26: in every state, for every target and every hook fault, set_current
\* with any direction returns the same result and leaves the same active
\* screen, registry, history and screens as with the default direction
\* 'left', hence the same for any two directions; the session state is not
\* touched by any
C26_DirectionIsPresentationOnly ==
    \A t \in Targets, f \in Faults :
        LET default == Semantics(SetCurrent(nav, screens, app_state, t, "left", f))
        IN  \A d \in AnyDirection :
                Semantics(SetCurrent(nav, screens, app_state, t, d, f)) = default

\* set_current has navigated with the direction 'right' over a history that
\* had an entry already
C26_Witness ==
    /\ last.op = "set_current"
    /\ last.ret = "True"
    /\ last.from = "main_idle"
    /\ last.target = "auth_selection"
    /\ nav.direction = "right"
    /\ Len(nav.navigation_history) = 2


(***************************************************************************)
(* The steps of a navigation                                               *)
(***************************************************************************)
\* a step that is a call of set_current
SetCurrentCalled == last'.op = "set_current"

\* C27: a set_current that returns True has run the exit hook of the old
\* screen and then the entry hook of the new one, has made the target the
\* active screen and has appended {from, to} to the history; and the
\* history has an entry more iff set_current returns True
C27_HistoryGrowsIffSuccess ==
    [][ SetCurrentCalled =>
            /\ last'.ret = "True" =>
                   /\ nav'.sm_current = last'.target
                   /\ nav'.navigation_history =
                          Append(nav.navigation_history,
                                 NavigationEvent(app_state, nav.sm_current, last'.target))
                   /\ \A k \in 1..Len(last'.hooks) :
                          last'.hooks[k] = <<"exit", nav.sm_current_screen>> => k = 1
            /\ last'.ret = "True" <=>
                   Len(nav'.navigation_history) = Len(nav.navigation_history) + 1
            /\ last'.ret = "False" =>
                   nav'.navigation_history = nav.navigation_history ]_vars


\* C28: a navigation in which a hook raises returns False; when the exit
\* hook of the old screen raised the active screen is the old one, and when
\* the entry hook of the new screen raised the active screen is the target
C28_HookFailureNotRolledBack ==
    [][ /\ last'.raised = "exit" =>
              /\ last'.ret = "False"
              /\ last'.hooks = << <<"exit", nav.sm_current_screen>> >>
              /\ nav'.sm_current = nav.sm_current
              /\ nav'.sm_current_screen = nav.sm_current_screen
        /\ last'.raised = "enter" =>
              /\ last'.ret = "False"
              /\ last'.hooks[Len(last'.hooks)] = <<"enter", last'.target>>
              /\ nav'.sm_current = last'.target ]_vars

\* the entry hook of auth_selection raised: set_current returned False and
\* auth_selection is the active screen
C28_Witness ==
    /\ last.op = "set_current"
    /\ last.raised = "enter"
    /\ last.ret = "False"
    /\ last.from = "main_idle"
    /\ last.target = "auth_selection"
    /\ nav.sm_current = "auth_selection"
    /\ nav.sm_current_screen = "auth_selection"


(***************************************************************************)
(* Back to the previous screen                                             *)
(***************************************************************************)
\* the last navigation on record went from a screen to another one, which
\* is the screen on display
CameFromElsewhere ==
    LET h == nav.navigation_history
    IN  /\ h # <<>>
        /\ h[Len(h)].from # h[Len(h)].to
        /\ h[Len(h)].to = nav.sm_current
        /\ nav.sm_current_screen = nav.sm_current

\* C29: when the last navigation went from A to B, A # B, and B is the
\* active screen, a go_back call makes A the active screen
C29_GoBackReturnsToPrevious ==
    [][ (last'.op = "go_back" /\ CameFromElsewhere) =>
            nav'.sm_current =
                nav.navigation_history[Len(nav.navigation_history)].from ]_vars


IsActivityCode(c) ==
    /\ Len(c) >= MIN_ACTIVITY_CODE_LENGTH
    /\ Len(c) <= MAX_ACTIVITY_CODE_LENGTH
    /\ \A i \in 1..Len(c) : c[i] \in Digits

\* C31: SessionState.activity_code is None or a string of 3 to 8 digits, and
\* it is a string only while a session is active; the same holds of the
\* activity code SessionState held when end_session assembled its summary,
\* which is the one moment a code validated at the panel is held
C31_ActivityCodeWellFormed ==
    /\ \/ app_state.activity_code = None
       \/ /\ IsActivityCode(app_state.activity_code)
          /\ app_state.session_active
    /\ last.summary # NoValue =>
           \/ last.summary[1].activity_code = None
           \/ IsActivityCode(last.summary[1].activity_code)

\* the longest code was validated in a session: end_session found it in
\* SessionState and left None behind
C31_Witness ==
    /\ last.op = "ActivityCodeScreen.on_key_press"
    /\ last.summary # NoValue
    /\ last.summary[1].activity_code = <<"4", "4", "4", "4", "4", "4", "4", "4">>
    /\ Len(last.summary[1].activity_code) = MAX_ACTIVITY_CODE_LENGTH
    /\ app_state.activity_code = None
    /\ ~app_state.session_active

(***************************************************************************)
(* The session and the screen on display                                   *)
(***************************************************************************)
\* C32: whenever main_idle is the active screen no session is active
C32_NoSessionAtMainIdle ==
    nav.sm_current = "main_idle" => ~app_state.session_active

(***************************************************************************)
(* Deferred callbacks and the screen that scheduled them                   *)
(***************************************************************************)
\* the callbacks that navigate
NavigatingCallbacks ==
    { <<"card_scan", "proceed_to_pin">>, <<"biometric_scan", "proceed_to_pin">>,
      ReturnToMain }

\* the clock calls the callback c of a screen that is not the active one
StaleCall(c) ==
    /\ clock_events'[c] < clock_events[c]
    /\ nav.sm_current # c[1]

\* C33: a navigating callback the clock calls after its screen was left
\* changes neither the active screen nor the user of the PIN screen
C33_StaleCallbackChangesNothing ==
    [][ \A c \in NavigatingCallbacks :
            StaleCall(c) =>
                /\ nav'.sm_current = nav.sm_current
                /\ screens'.pin_entry.current_user = screens.pin_entry.current_user ]_vars

\* the scan screen that was active last, by the history h of navigations
LastScanScreen(h) ==
    LET at == {i \in 1..Len(h) : h[i].to \in ScanScreens}
    IN  IF at = {} THEN NoName
        ELSE h[CHOOSE i \in at : \A j \in at : j <= i].to

\* the authentication method of a scan screen
ScanMethod(s) == IF s = "card_scan" THEN "card" ELSE "biometric"

\* C34: a session started from the PIN screen has the user and the
\* authentication method of the scan screen that was active last before
\* the PIN was submitted
C34_SessionMatchesLastScan ==
    [][ ( /\ last'.op = "PinEntryScreen.on_key_press"
          /\ last'.target = "activity_code" )
        => /\ app_state'.session_active
           /\ LastScanScreen(nav.navigation_history) \in ScanScreens
           /\ app_state'.current_user = ScanUser(LastScanScreen(nav.navigation_history))
           /\ app_state'.authentication_method =
                  ScanMethod(LastScanScreen(nav.navigation_history)) ]_vars

(***************************************************************************)
(* The lockout of the emergency screen                                     *)
(***************************************************************************)
\* C35: emergency access is never granted on a screen that counts
\* MAX_PIN_ATTEMPTS failed attempts: the count returns to zero only when
\* the screen is entered again, so after a lockout no key press and no
\* unlock attempt reaches grant_emergency_access before that
C35_NoGrantAfterLockout ==
    last.outcome = "access_granted" =>
        screens.emergency_access.failed_attempts < MAX_PIN_ATTEMPTS

(***************************************************************************)
(* handle_authentication_success                                           *)
(***************************************************************************)
\* the session state after the call is what start_session makes of the one
\* before it, for some user and authentication method
SessionStarted ==
    /\ app_state'.session_active
    /\ \E u \in FlowUsers, m \in Methods :
           /\ app_state'.current_user = u
           /\ app_state' = StartSession(app_state, u, m, now)

\* C36 as stated: handle_authentication_success returns True exactly when
\* activity_code is the active screen afterwards, and the session is
\* started whatever it returns
C36_TrueIffAtActivityCode ==
    [][ CallOf({"handle_authentication_success"}) =>
            /\ last'.ret = "True" <=> nav'.sm_current = "activity_code"
            /\ SessionStarted ]_vars

\* C36: handle_authentication_success returns True only when
\* activity_code is the active screen afterwards; it returns False with
\* activity_code active when activity_code was active already, so that the
\* navigation was rejected, or when something raised after the switch; the
\* session is started whatever it returns
C36_TrueOnlyAtActivityCode ==
    [][ CallOf({"handle_authentication_success"}) =>
            /\ last'.ret = "True" => nav'.sm_current = "activity_code"
            /\ (last'.ret = "False" /\ nav'.sm_current = "activity_code") =>
                   \/ /\ nav.sm_current = "activity_code"
                      /\ last'.outcome = "blocked"
                      /\ nav' = nav
                   \/ last'.raised \in {"enter", "screen_manager"}
            /\ (last'.ret = "False" /\ nav'.sm_current # "activity_code") =>
                   \/ last'.outcome = "blocked"
                   \/ last'.raised = "exit"
            /\ SessionStarted ]_vars

\* handle_authentication_success was called for Alice with the registered
\* activity_code on display: the navigation was rejected, it returned False,
\* activity_code is still the active screen and the session is Alice's
C36_Witness ==
    /\ last.op = "handle_authentication_success"
    /\ last.from = "activity_code"
    /\ last.ret = "False"
    /\ last.outcome = "blocked"
    /\ nav.sm_current = "activity_code"
    /\ nav.sm_current_screen = "activity_code"
    /\ app_state.session_active
    /\ app_state.current_user = Alice

(***************************************************************************)
(* The history as a chain                                                  *)
(***************************************************************************)
\* every navigation on record went to a registered screen
TargetsRegistered(n) ==
    \A i \in 1..Len(n.navigation_history) :
        n.navigation_history[i].to \in n.screen_registry

\* each entry starts where the entry before it ended, and the last entry
\* ended at the active screen
IsChain(n) ==
    LET h == n.navigation_history
    IN  /\ h # <<>> => h[Len(h)].to = n.sm_current
        /\ \A i \in 2..Len(h) : h[i].from = h[i - 1].to

\* C37: where every navigation went to a registered screen and no hook
\* raised, the history is a chain that ends at the active screen
C37_HistoryIsChain ==
    TargetsRegistered(nav) => IsChain(nav)

\* go_back added the last of at least four entries of a full history: it
\* left the screen the entry before it had gone to, for another screen
C37_Witness ==
    LET h == nav.navigation_history
    IN  /\ last.op = "go_back"
        /\ Len(h) = HISTORY_LIMIT
        /\ recorded > HISTORY_LIMIT
        /\ TargetsRegistered(nav)
        /\ h[Len(h)].from # h[Len(h)].to
        /\ h[Len(h)].from = h[Len(h) - 1].to
        /\ h[Len(h) - 1].from # h[Len(h) - 1].to
        /\ h[Len(h)].to = nav.sm_current

(***************************************************************************)
(* The emergency path and the session                                      *)
(***************************************************************************)
\* the handlers of the emergency path: the button that opens the screen,
\* which makes the navigation manager call on_screen_enter, the keypad, the
\* unlock and cancel buttons, and the deferred return to main_idle
EmergencyOps ==
    { "MainIdleScreen.handle_emergency_access",
      "EmergencyAccessScreen.on_key_press",
      "EmergencyAccessScreen.attempt_emergency_unlock",
      "EmergencyAccessScreen.cancel_emergency",
      "EmergencyAccessScreen.return_to_main" }

\* C38: no handler of the emergency path changes a field of SessionState
C38_EmergencyLeavesSession ==
    [][ last'.op \in EmergencyOps => app_state' = app_state ]_vars

\* emergency access was granted after a denied attempt while the session
\* of the card user was under way: the session is as it was
C38_Witness ==
    /\ last.op = "EmergencyAccessScreen.on_key_press"
    /\ last.outcome = "access_granted"
    /\ nav.sm_current = "emergency_access"
    /\ screens.emergency_access.failed_attempts = 1
    /\ app_state.session_active
    /\ app_state.current_user = CardUser
    /\ app_state.failed_attempts = 0
    /\ app_state.session_id # NoValue

(***************************************************************************)
(* is_active of the screens                                                *)
(***************************************************************************)
\* C39: once the application has registered its screens and navigated to
\* main_idle, and whatever navigations follow with no hook raising, the
\* active screen is a registered screen whose is_active is true, and the
\* is_active of every other registered screen is false
C39_OnlyActiveScreenIsActive ==
    nav.screen_registry # {} =>
        /\ nav.sm_current \in nav.screen_registry
        /\ \A s \in nav.screen_registry :
               screens.is_active[s] <=> s = nav.sm_current
        /\ Cardinality({s \in nav.screen_registry : screens.is_active[s]}) = 1

\* go_back went from card_scan to main_idle: card_scan, active before, is
\* not active any more, and main_idle is
C39_Witness ==
    /\ last.op = "go_back"
    /\ last.from = "card_scan"
    /\ last.ret = "True"
    /\ nav.sm_current = "main_idle"
    /\ Cardinality(nav.screen_registry) = 8
    /\ screens.is_active["main_idle"]
    /\ ~screens.is_active["card_scan"]
    /\ ~screens.is_active["auth_selection"]

====
